---- MODULE Spec2Model ----
(***************************************************************************)
(* Model of the canvas-ta-assistant fetch/aggregate/cache pipeline:        *)
(*   - services/cache.py       TTLCache and the keyed helper functions      *)
(*   - services/ta_processing  the per-assignment aggregator                *)
(*   - routers/ta_management, routers/statistics, routers/distribution      *)
(*                             the fan-out / fan-in orchestrators           *)
(***************************************************************************)
EXTENDS Integers, Sequences, FiniteSets, TLC

\* ------------------------------------------------------------------------
\* Bounds of the model
\* ------------------------------------------------------------------------
MaxSize == 2
MaxTime == 3

Courses == {"c1", "c2"}
Tokens == {"tA", "tB"}
HashVals == {1, 2}
\* the (course, credential) pairs that requests are made with
Requests == {<<"c1", "tA">>, <<"c1", "tB">>, <<"c2", "tA">>}
Values == {"v1", "v2"}
TTLs == {1}
StaleTTLs == {1}

\* The str hash functions a process may start with (hash values are
\* interchangeable, so the hash of tA is fixed)
Seeds == {h \in [Tokens -> HashVals] : h["tA"] = 1}

\* Python's None
None == "None"

VARIABLES
  hashSeed,         \* the process's str hash (randomised once per process)
  ta_groups_cache,  \* TTLCache._cache, a dict: entries in insertion order
  now,              \* the reading of time.time()
  last,             \* the last call made on the cache and what it returned
  rewritten,        \* history: the key last re-written while present (if still present)
  pandas,           \* the major version of the pandas the process runs with
  groups,           \* the course's groups with their members, as Canvas lists them
  assignments,      \* the course's assignments, each with what get_submissions gives
  endpoint,         \* the endpoint serving the request
  futures,          \* future_to_assignment: one future per assignment
  aggregate,        \* the loop's accumulators (raw ungraded rows, raw stats, distribution)
  response,         \* what the endpoint returned (None while it runs)
  upstream,         \* how Canvas answers the lookups and listings of the request
  call,             \* the call of _to_thread (or run_in_executor) under way
  arrived,          \* a second caller request: none, waiting, answered
  enable_caching,   \* settings.enable_caching
  tasks,            \* BackgroundTasks: the refresh tasks queued and not yet run
  ack,              \* what the last trigger request returned
  assignment_stats_cache, \* TTLCache._cache of the assignment statistics
  member_map,             \* the member-to-group map built for a run
  seen,                   \* history: the state of a key's entry that its last set or read showed
  threads,                \* the threads calling methods of one TTLCache, each with its locals
  lock,                   \* TTLCache._lock: the thread that holds it, or None
  callers,                \* the concurrent get_ta_groups requests, each with its locals
  assignment_thread_pool_executor, \* the module global: 0 (None) or the pool it names
  resolvers,              \* the requests resolving the pool dependency, and their jobs
  executor                \* the calls _to_thread has handed to thread_pool, one per attempt

cacheVars == <<hashSeed, ta_groups_cache, now, last, rewritten>>
pipeVars == <<pandas, groups, assignments, endpoint, futures, aggregate, response>>
serverVars == <<upstream, call, arrived, enable_caching, tasks, ack,
                assignment_stats_cache>>
moreVars == <<member_map, seen, threads, lock, callers,
              assignment_thread_pool_executor, resolvers, executor>>
vars == <<hashSeed, ta_groups_cache, now, last, rewritten,
          pandas, groups, assignments, endpoint, futures, aggregate, response,
          upstream, call, arrived, enable_caching, tasks, ack,
          assignment_stats_cache, member_map, seen, threads, lock,
          callers, assignment_thread_pool_executor, resolvers, executor>>

\* NaN, the missing value of a pandas column
NaN == "NaN"

\* the accumulators of an as_completed loop before its first turn; failed is
\* set when an exception leaves the loop
EmptyAggregate ==
  [ungraded_submissions_raw |-> <<>>, assignment_stats_raw |-> <<>>,
   grading_distribution |-> <<>>, failed |-> FALSE]

\* What an endpoint has returned: nothing yet (status "pending"), its
\* payload (status "200"), or an HTTPException (status "500")
Response(status, ungraded, dist, stats) ==
  [status |-> status, ungraded_submissions |-> ungraded,
   total_ungraded |-> Len(ungraded), grading_distribution |-> dist,
   assignment_stats |-> stats]

Pending == Response("pending", <<>>, <<>>, <<>>)

\* no request is being served
NoRequest ==
  /\ pandas = 2
  /\ groups = <<>>
  /\ assignments = <<>>
  /\ endpoint = None
  /\ futures = <<>>
  /\ aggregate = EmptyAggregate
  /\ response = Pending

\* Canvas answers every lookup and listing of the request
UpstreamOk ==
  [course |-> "ok", group_listing |-> "ok", member_fetch |-> "ok",
   assignment_listing |-> "ok", single |-> None]

\* no call of _to_thread is under way.  outcomes is what func does on each
\* attempt, i the loop variable, tries the attempts made, sleeps the waits
\* made (in ms), state where the call stands, last_exc the exception kept,
\* ret the attempt whose result the call returned (0: none)
NoCall ==
  [func |-> None, outcomes |-> <<>>, state |-> "idle", i |-> 0, tries |-> 0,
   sleeps |-> <<>>, last_exc |-> None, ret |-> 0]

\* no trigger request has been answered
NoAck == [status_code |-> None, status |-> None, tasks |-> <<>>]

\* the threads that call the cache
Threads == {"t1", "t2"}

\* a thread that is in no method of the cache
Outside ==
  [pc |-> "outside", op |-> "None", key |-> <<"None", 0>>, found |-> FALSE,
   value |-> "None", timestamp |-> 0, current_time |-> 0, snap |-> <<>>,
   ret |-> [value |-> "None", is_stale |-> FALSE]]

\* the requests made at the same time
Callers == {"r1", "r2"}

\* a get_ta_groups request: where it is, what its cache check found, what its
\* fetch gave, its answer, and (history) the rank of its cache write
Caller(pc, check, value, status, wrote) ==
  [pc |-> pc, check |-> check, value |-> value, status |-> status,
   wrote |-> wrote]

\* a request that depends on the assignment pool: where it is in
\* get_assignment_thread_pool, whether it saw the global None, the pool it
\* created (0: none), the pool it was given (0: none), the jobs of it that
\* are executing and the jobs it has still to submit
Resolver(pc, saw_none, made, pool, running, todo) ==
  [pc |-> pc, saw_none |-> saw_none, made |-> made, pool |-> pool,
   running |-> running, todo |-> todo]

\* a member-to-group map not built yet, or the one built from the groups
Mapping(built, map) == [built |-> built, map |-> map]

\* nothing besides the cache, the request and the server is at work
NoMore ==
  /\ member_map = Mapping(FALSE, <<>>)
  /\ seen = [r \in Requests |-> "unread"]
  /\ threads = [t \in Threads |-> Outside]
  /\ lock = "None"
  /\ callers = [r \in Callers |-> Caller("idle", "None", "None", "None", 0)]
  /\ assignment_thread_pool_executor = 0
  /\ resolvers = [r \in Callers |-> Resolver("idle", FALSE, 0, 0, 0, 0)]
  /\ executor = <<>>

\* no second caller, no refresh queued, nothing cached
NoRefresh ==
  /\ arrived = "none"
  /\ enable_caching = TRUE
  /\ tasks = <<>>
  /\ ack = NoAck
  /\ assignment_stats_cache = <<>>

\* nothing but the request at hand
NoServer ==
  /\ upstream = UpstreamOk
  /\ call = NoCall
  /\ NoRefresh

\* ------------------------------------------------------------------------
\* TTLCache (services/cache.py)
\* ------------------------------------------------------------------------
\* A dict entry key -> (value, timestamp).  by is a history field: the
\* credential whose set wrote the value.
CacheEntry(key, value, ts, by) ==
  [key |-> key, value |-> value, ts |-> ts, by |-> by]

\* key in self._cache
Has(c, key) == \E i \in 1..Len(c) : c[i].key = key

IndexOf(c, key) == CHOOSE i \in 1..Len(c) : c[i].key = key

\* self._cache[key]
Lookup(c, key) == c[IndexOf(c, key)]

\* del self._cache[key]
Del(c, key) == SelectSeq(c, LAMBDA e : e.key # key)

\* a slip: evicting the first key of the dict whatever its timestamp
OldestIndex_FirstInserted(c) == 1

\* min(self._cache.keys(), key=lambda k: self._cache[k][1]): the first key,
\* in dict order, among those with the least timestamp
OldestIndex(c) ==
  CHOOSE i \in 1..Len(c) :
    /\ \A j \in 1..Len(c) : c[i].ts <= c[j].ts
    /\ \A j \in 1..(i - 1) : c[j].ts > c[i].ts

\* What a read returns: get returns value (None when absent or expired);
\* get_stale_ok returns (value, is_stale), or None, written Ret(None, FALSE)
Ret(value, is_stale) == [value |-> value, is_stale |-> is_stale]

\* a slip: an entry of age exactly ttl taken as expired
TTLCache_get_OffByOne(c, key, ttl, t) ==
  IF ~Has(c, key) THEN [cache |-> c, ret |-> Ret(None, FALSE)]
  ELSE IF t - Lookup(c, key).ts >= ttl
       THEN [cache |-> Del(c, key), ret |-> Ret(None, FALSE)]
       ELSE [cache |-> c, ret |-> Ret(Lookup(c, key).value, FALSE)]

\* a slip: an expired entry reported absent but left in the dict
TTLCache_get_KeepsExpired(c, key, ttl, t) ==
  IF ~Has(c, key) THEN [cache |-> c, ret |-> Ret(None, FALSE)]
  ELSE IF t - Lookup(c, key).ts > ttl
       THEN [cache |-> c, ret |-> Ret(None, FALSE)]
       ELSE [cache |-> c, ret |-> Ret(Lookup(c, key).value, FALSE)]

\* TTLCache.get
TTLCache_get(c, key, ttl, t) ==
  IF ~Has(c, key) THEN [cache |-> c, ret |-> Ret(None, FALSE)]
  ELSE IF t - Lookup(c, key).ts > ttl
       THEN [cache |-> Del(c, key), ret |-> Ret(None, FALSE)]
       ELSE [cache |-> c, ret |-> Ret(Lookup(c, key).value, FALSE)]

\* a slip: stale_ttl read as the total age allowed, as the docstring has it
TTLCache_get_stale_ok_TotalAge(c, key, ttl, stale_ttl, t) ==
  IF ~Has(c, key) THEN [cache |-> c, ret |-> Ret(None, FALSE)]
  ELSE LET age == t - Lookup(c, key).ts
       IN IF age > stale_ttl
          THEN [cache |-> Del(c, key), ret |-> Ret(None, FALSE)]
          ELSE IF age <= ttl
               THEN [cache |-> c, ret |-> Ret(Lookup(c, key).value, FALSE)]
               ELSE [cache |-> c, ret |-> Ret(Lookup(c, key).value, TRUE)]

\* a slip: a stale read stamps the entry anew
TTLCache_get_stale_ok_Touch(c, key, ttl, stale_ttl, t) ==
  IF ~Has(c, key) THEN [cache |-> c, ret |-> Ret(None, FALSE)]
  ELSE LET age == t - Lookup(c, key).ts
           e == Lookup(c, key)
       IN IF age > ttl + stale_ttl
          THEN [cache |-> Del(c, key), ret |-> Ret(None, FALSE)]
          ELSE IF age <= ttl
               THEN [cache |-> c, ret |-> Ret(e.value, FALSE)]
               ELSE [cache |-> [i \in 1..Len(c) |->
                                  IF c[i].key = key
                                  THEN CacheEntry(key, e.value, t, e.by)
                                  ELSE c[i]],
                     ret |-> Ret(e.value, TRUE)]

\* TTLCache.get_stale_ok
TTLCache_get_stale_ok(c, key, ttl, stale_ttl, t) ==
  IF ~Has(c, key) THEN [cache |-> c, ret |-> Ret(None, FALSE)]
  ELSE LET age == t - Lookup(c, key).ts
       IN IF age > ttl + stale_ttl
          THEN [cache |-> Del(c, key), ret |-> Ret(None, FALSE)]
          ELSE IF age <= ttl
               THEN [cache |-> c, ret |-> Ret(Lookup(c, key).value, FALSE)]
               ELSE [cache |-> c, ret |-> Ret(Lookup(c, key).value, TRUE)]

\* a slip: a key that has an entry keeps it
Assign_KeepExisting(c, key, value, t, by) ==
  IF Has(c, key) THEN c ELSE Append(c, CacheEntry(key, value, t, by))

\* self._cache[key] = (value, current_time): an existing key keeps its place
\* in the dict, a new key goes to the end
Assign(c, key, value, t, by) ==
  IF Has(c, key)
  THEN [i \in 1..Len(c) |->
          IF c[i].key = key THEN CacheEntry(key, value, t, by) ELSE c[i]]
  ELSE Append(c, CacheEntry(key, value, t, by))

\* a slip: the size compared with max_size before the entry is written
TTLCache_set_CheckBeforeInsert(c, key, value, t, by, max_size) ==
  IF Len(c) > max_size
  THEN [cache |-> Assign(Del(c, c[OldestIndex(c)].key), key, value, t, by),
        victim |-> OldestIndex(c)]
  ELSE [cache |-> Assign(c, key, value, t, by), victim |-> 0]

\* TTLCache.set
TTLCache_set(c, key, value, t, by, max_size) ==
  LET written == Assign(c, key, value, t, by)
  IN IF Len(written) > max_size
     THEN [cache |-> Del(written, written[OldestIndex(written)].key),
           victim |-> OldestIndex(written)]
     ELSE [cache |-> written, victim |-> 0]

\* hash(api_token): fixed for the life of the process, many-to-one
hash(api_token) == hashSeed[api_token]

\* generate_cache_key: f"{course_id}_{hash(api_token)}"
generate_cache_key(course_id, api_token) == <<course_id, hash(api_token)>>

\* ------------------------------------------------------------------------
\* Calls on the cache
\* ------------------------------------------------------------------------
\* The last call: what it was, what it returned, whether it deleted an entry
\* and, for a set, the place in the dict of the entry it evicted (0: none).
Call(op, ret, removed, victim) ==
  [op |-> op, ret |-> ret, removed |-> removed, victim |-> victim]

Idle == Call("idle", Ret(None, FALSE), FALSE, 0)

NoKey == <<None, 0>>

\* the history of re-writes after a call that leaves the cache as c
Forget(c) == IF Has(c, rewritten) THEN rewritten ELSE NoKey

\* set_cached_ta_groups
set_cached_ta_groups(course_id, api_token, value) ==
  LET key == generate_cache_key(course_id, api_token)
      r == TTLCache_set(ta_groups_cache, key, value, now, api_token, MaxSize)
  IN /\ ta_groups_cache' = r.cache
     /\ last' = Call("set", Ret(None, FALSE), r.victim > 0, r.victim)
     /\ rewritten' = IF Has(ta_groups_cache, key) THEN key ELSE Forget(r.cache)
     /\ UNCHANGED <<hashSeed, now>>
     /\ UNCHANGED pipeVars
     /\ UNCHANGED serverVars
     /\ UNCHANGED moreVars

\* get_cached_ta_groups
get_cached_ta_groups(course_id, api_token, ttl) ==
  LET r == TTLCache_get(ta_groups_cache, generate_cache_key(course_id, api_token),
                        ttl, now)
  IN /\ ta_groups_cache' = r.cache
     /\ last' = Call("get", r.ret, Len(r.cache) < Len(ta_groups_cache), 0)
     /\ rewritten' = Forget(r.cache)
     /\ UNCHANGED <<hashSeed, now>>
     /\ UNCHANGED pipeVars
     /\ UNCHANGED serverVars
     /\ UNCHANGED moreVars

\* get_cached_ta_groups_stale_ok
get_cached_ta_groups_stale_ok(course_id, api_token, ttl, stale_ttl) ==
  LET r == TTLCache_get_stale_ok(ta_groups_cache,
                                 generate_cache_key(course_id, api_token),
                                 ttl, stale_ttl, now)
  IN /\ ta_groups_cache' = r.cache
     /\ last' = Call("get_stale_ok", r.ret,
                     Len(r.cache) < Len(ta_groups_cache), 0)
     /\ rewritten' = Forget(r.cache)
     /\ UNCHANGED <<hashSeed, now>>
     /\ UNCHANGED pipeVars
     /\ UNCHANGED serverVars
     /\ UNCHANGED moreVars

\* clear_all_caches -> TTLCache.clear
clear_all_caches ==
  /\ ta_groups_cache' = <<>>
  /\ assignment_stats_cache' = <<>>
  /\ last' = Call("clear", Ret(None, FALSE),
                  Len(ta_groups_cache) + Len(assignment_stats_cache) > 0, 0)
  /\ rewritten' = NoKey
  /\ UNCHANGED <<hashSeed, now>>
  /\ UNCHANGED pipeVars
  /\ UNCHANGED <<upstream, call, arrived, enable_caching, tasks, ack>>
  /\ UNCHANGED moreVars

\* the clock advances between calls
Tick ==
  /\ now < MaxTime
  /\ now' = now + 1
  /\ last' = Idle
  /\ UNCHANGED <<hashSeed, ta_groups_cache, rewritten>>
  /\ UNCHANGED pipeVars
  /\ UNCHANGED serverVars
  /\ UNCHANGED moreVars

InitCache ==
  /\ NoMore
  /\ hashSeed \in Seeds
  /\ ta_groups_cache = <<>>
  /\ now = 0
  /\ last = Idle
  /\ rewritten = NoKey
  /\ NoRequest
  /\ NoServer

NextCache ==
  \/ \E r \in Requests, v \in Values : set_cached_ta_groups(r[1], r[2], v)
  \/ \E r \in Requests, ttl \in TTLs : get_cached_ta_groups(r[1], r[2], ttl)
  \/ \E r \in Requests, ttl \in TTLs, s \in StaleTTLs :
       get_cached_ta_groups_stale_ok(r[1], r[2], ttl, s)
  \/ clear_all_caches
  \/ Tick

SpecCache == InitCache /\ [][NextCache]_vars

\* ------------------------------------------------------------------------
\* Properties of the cache
\* ------------------------------------------------------------------------
\* every key other than k has the same entry, or none, in c1 and in c2
SameElsewhere(c1, c2, k) ==
  \A i \in 1..Len(c1) :
    c1[i].key # k => (Has(c2, c1[i].key) /\ Lookup(c2, c1[i].key) = c1[i])

\* C1: a set of (k, v) leaves k holding v stamped with the current time, and a
\* get made at once returns v; an entry changes only by a set of its key; a
\* get of an entry of age <= ttl returns its value and leaves the cache
\* alone; a get of an entry of age > ttl returns None and removes the entry.
C1_RoundTripAndExpiry ==
  [][ /\ \A <<c, t>> \in Requests, v \in Values :
           set_cached_ta_groups(c, t, v) =>
             LET k == generate_cache_key(c, t)
             IN /\ Has(ta_groups_cache', k)
                /\ Lookup(ta_groups_cache', k).value = v
                /\ Lookup(ta_groups_cache', k).ts = now
                /\ \A ttl \in TTLs :
                     TTLCache_get(ta_groups_cache', k, ttl, now').ret = Ret(v, FALSE)
      /\ \A i \in 1..Len(ta_groups_cache) :
           LET e == ta_groups_cache[i]
           IN (Has(ta_groups_cache', e.key) /\ Lookup(ta_groups_cache', e.key) # e)
                => last'.op = "set"
      /\ \A <<c, t>> \in Requests, ttl \in TTLs :
           get_cached_ta_groups(c, t, ttl) =>
             LET k == generate_cache_key(c, t)
             IN Has(ta_groups_cache, k) =>
                  IF now - Lookup(ta_groups_cache, k).ts <= ttl
                  THEN /\ last'.ret = Ret(Lookup(ta_groups_cache, k).value, FALSE)
                       /\ ta_groups_cache' = ta_groups_cache
                  ELSE /\ last'.ret = Ret(None, FALSE)
                       /\ ~Has(ta_groups_cache', k)
                       /\ Len(ta_groups_cache') = Len(ta_groups_cache) - 1
                       /\ SameElsewhere(ta_groups_cache, ta_groups_cache', k)
    ]_vars

\* a get has found an entry older than ttl and removed it
C1_Witness == last.op = "get" /\ last.removed /\ last.ret.value = None

Missing(c, d) == {i \in 1..Len(c) : ~Has(d, c[i].key)}

\* C3 (as amended): a set of a new key into a cache of max_size entries
\* leaves max_size entries, the new key among them, and removes the one entry
\* whose latest write timestamp is the oldest (among equal timestamps, the
\* one first in insertion order); any other set evicts nothing.
C3_EvictsOldestTimestamp ==
  [][ \A <<c, t>> \in Requests, v \in Values :
        set_cached_ta_groups(c, t, v) =>
          LET k == generate_cache_key(c, t)
              old == ta_groups_cache
              new == ta_groups_cache'
          IN IF ~Has(old, k) /\ Len(old) = MaxSize
             THEN /\ Len(new) = MaxSize
                  /\ Has(new, k)
                  /\ Cardinality(Missing(old, new)) = 1
                  /\ \A i \in Missing(old, new) :
                       /\ \A j \in 1..Len(old) : old[i].ts <= old[j].ts
                       /\ \A j \in 1..(i - 1) : old[j].ts > old[i].ts
                       /\ last'.victim = i
                  /\ SameElsewhere(new, old, k)
             ELSE /\ Missing(old, new) = {}
                  /\ Len(new) = Len(old) + (IF Has(old, k) THEN 0 ELSE 1)
                  /\ last'.victim = 0
    ]_vars

\* an overflow has evicted an entry that was not the first inserted: the
\* keys before it had been written again later
C3_Witness == last.op = "set" /\ last.removed /\ last.victim > 1

\* the timestamps of c are pairwise distinct
DistinctStamps(c) ==
  \A i, j \in 1..Len(c) : i # j => c[i].ts # c[j].ts

\* C3 (as claimed): an overflow leaves max_size entries and a key that was
\* re-written before the overflow is not the victim (stated for entries
\* whose timestamps all differ).
C3_AsClaimed ==
  [][ \A <<c, t>> \in Requests, v \in Values :
        (set_cached_ta_groups(c, t, v) /\ last'.removed
           /\ DistinctStamps(ta_groups_cache)) =>
          /\ Len(ta_groups_cache') = MaxSize
          /\ (rewritten # NoKey => Has(ta_groups_cache', rewritten))
    ]_vars

\* C4 (as claimed): a read under (course, B) never returns a value that was
\* stored under another credential.
C4_CredentialIsolation ==
  [][ /\ \A <<c, t>> \in Requests, ttl \in TTLs :
           (get_cached_ta_groups(c, t, ttl) /\ last'.ret.value # None) =>
             Lookup(ta_groups_cache, generate_cache_key(c, t)).by = t
      /\ \A <<c, t>> \in Requests, ttl \in TTLs, s \in StaleTTLs :
           (get_cached_ta_groups_stale_ok(c, t, ttl, s) /\ last'.ret.value # None) =>
             Lookup(ta_groups_cache, generate_cache_key(c, t)).by = t
    ]_vars

\* ------------------------------------------------------------------------
\* Upstream data: groups, assignments, submissions
\* ------------------------------------------------------------------------
MaxSubs == 2
NumAssignments == 2

UserIds == {"u1", "u2"}

\* a Canvas group and its members (user ids)
Group(name, members) == [name |-> name, members |-> members]

\* the group lists a course may have
GroupConfigs ==
  { <<Group("Alpha", <<"u1">>), Group("Beta", <<"u2">>)>>,
    <<Group("Alpha", <<"u1">>), Group("Term Project 1", <<"u2">>)>> }

\* the names that contain "Term Project"
TermProjectNames == {"Term Project 1"}

\* group names in the order a sort puts them
GroupOrder == <<"Alpha", "Beta", "Term Project 1">>

\* the score values that are numbers
NumericScores == {"5.0"}

\* A submission as Canvas returns it.  grade and score come in the
\* combinations: nothing, an empty grade, a grade, a score.
Submissions ==
  { [student_id |-> u, grader_id |-> g, submitted_at |-> t,
     grade |-> gs[1], score |-> gs[2]] :
      u \in UserIds, g \in {None, "u1"}, t \in {None, "2024-05-01"},
      gs \in {<<None, None>>, <<"", None>>, <<"A", None>>, <<None, "5.0">>} }

SubLists(n) == UNION {[1..k -> Submissions] : k \in 0..n}

\* An assignment: fetch tells whether get_submissions succeeds ("ok"), fails
\* on every call ("fail"), or fails on the first call and would succeed on
\* a second one ("transient")
Assignment(fetch, subs) == [fetch |-> fetch, submissions |-> subs]

\* ------------------------------------------------------------------------
\* The per-assignment aggregator (process_assignment_submissions_sync)
\* ------------------------------------------------------------------------
\* the indices of s, in order, that satisfy P
Where(s, P(_)) == SelectSeq([i \in 1..Len(s) |-> i], P)

Map(s, F(_)) == [i \in 1..Len(s) |-> F(s[i])]

\* dict.get(k, 0)
Get(d, k) == IF k \in DOMAIN d THEN d[k] ELSE 0

\* round(100 * n / d, 1) in tenths of a percent, ties to even
Round1(n, d) ==
  LET q == (1000 * n) \div d
      r == (1000 * n) % d
  IN IF 2 * r > d THEN q + 1
     ELSE IF 2 * r < d THEN q
     ELSE IF q % 2 = 0 THEN q ELSE q + 1

\* pd.to_numeric(score, errors="coerce")
to_numeric(score) == IF score \in NumericScores THEN score ELSE NaN

has_submission(sub) == sub.submitted_at # None

\* a slip: a grade needing both a grade string and a score
has_grade_Both(sub) ==
  (sub.grade # None /\ sub.grade # "") /\ to_numeric(sub.score) # NaN

\* has_grade: a non-empty grade string or a numeric score
has_grade(sub) ==
  (sub.grade # None /\ sub.grade # "") \/ to_numeric(sub.score) # NaN

\* Series.map(mapping): the group of an id, NaN for an id not in the mapping
MapId(id, mapping) == IF id \in DOMAIN mapping THEN mapping[id] ELSE NaN

\* the statistics/distribution endpoints' filter: drop "Term Project" groups
FilterTAGroups(gs) == SelectSeq(gs, LAMBDA g : g.name \notin TermProjectNames)

\* _is_ta_group: no "Term Project" in the name, and a name
is_ta_group(g) == g.name \notin TermProjectNames /\ g.name # ""

\* the first group holding an id keeps it
build_ta_member_mapping_FirstWins(ta_groups) ==
  LET Holds(i, u) == \E j \in 1..Len(ta_groups[i].members) :
                       ta_groups[i].members[j] = u
      ids == {u \in UserIds : \E i \in 1..Len(ta_groups) : Holds(i, u)}
      FirstOf(u) == CHOOSE i \in 1..Len(ta_groups) :
                      /\ Holds(i, u)
                      /\ \A j \in 1..(i - 1) : ~Holds(j, u)
  IN [u \in ids |-> ta_groups[FirstOf(u)].name]

\* member id -> group name; a later group overwrites an earlier one
build_ta_member_mapping(ta_groups) ==
  LET Holds(i, u) == \E j \in 1..Len(ta_groups[i].members) :
                       ta_groups[i].members[j] = u
      ids == {u \in UserIds : \E i \in 1..Len(ta_groups) : Holds(i, u)}
      LastOf(u) == CHOOSE i \in 1..Len(ta_groups) :
                     /\ Holds(i, u)
                     /\ \A j \in (i + 1)..Len(ta_groups) : ~Holds(j, u)
  IN [u \in ids |-> ta_groups[LastOf(u)].name]

\* the stats dict of an assignment
Stats(id, total, graded, ungraded, pct, breakdown) ==
  [assignment_id |-> id, total_submissions |-> total,
   graded_submissions |-> graded, ungraded_submissions |-> ungraded,
   percentage_graded |-> pct, ta_grading_breakdown |-> breakdown]

\* the empty dict {} returned in the place of stats on an error
EmptyStats == [empty |-> TRUE]

\* (ungraded_rows, ta_counts, assignment_stats, error_msg)
Result(rows, counts, stats, err) ==
  [ungraded_rows |-> rows, ta_counts |-> counts, assignment_stats |-> stats,
   err |-> err]

\* the except branch: [], {}, {}, "Error processing assignment ..."
ErrorMarker == Result(<<>>, <<>>, EmptyStats, "Error processing assignment")

\* the early return for an assignment without submissions
EarlyReturn(id) == Result(<<>>, <<>>, Stats(id, 0, 0, 0, 1000, <<>>), None)

\* a row of the per-TA breakdown (the timing fields are left out)
BreakdownRow(name, total, graded, ungraded, pct) ==
  [ta_group |-> name, total_assigned |-> total, graded |-> graded,
   ungraded |-> ungraded, percentage_complete |-> pct]

\* df[df.ta_group.notna()].groupby("ta_group").agg(...): one row per group
\* that a submission is mapped to, in the sorted order of the names, with
\* ungraded = submitted - graded.  col[i] is the ta_group of submission i.
GroupedBreakdown(subs, col) ==
  LET In(g) == {i \in 1..Len(subs) : col[i] = g}
      present == SelectSeq(GroupOrder, LAMBDA g : In(g) # {})
      Row(g) ==
        LET total == Cardinality(In(g))
            graded == Cardinality({i \in In(g) : has_grade(subs[i])})
            submitted == Cardinality({i \in In(g) : has_submission(subs[i])})
        IN BreakdownRow(g, total, graded, submitted - graded,
                        Round1(graded, total))
  IN Map(present, Row)

\* the rows added for the groups of ta_groups_data that are not in breakdown
ZeroRows(breakdown, ta_groups_data) ==
  LET absent == SelectSeq(ta_groups_data,
                  LAMBDA g : \A j \in 1..Len(breakdown) :
                               breakdown[j].ta_group # g.name)
      Zero(g) == BreakdownRow(g.name, 0, 0, 0, 0)
  IN Map(absent, Zero)

\* group_to_members.get(name): the members of the last group of that name
MembersOf(name, ta_groups_data) ==
  LET named == SelectSeq(ta_groups_data, LAMBDA g : g.name = name)
  IN IF named = <<>> THEN <<>> ELSE named[Len(named)].members

\* the rows of the submissions with has_submission and not has_grade
UngradedRows(id, subs, col, ta_groups_data) ==
  LET IsUngraded(i) == has_submission(subs[i]) /\ ~has_grade(subs[i])
      Row(i) == [submission_id |-> i, assignment_id |-> id,
                 student_id |-> subs[i].student_id,
                 ta_group_name |-> IF col[i] = NaN THEN None ELSE col[i],
                 ta_members |-> MembersOf(col[i], ta_groups_data)]
  IN Map(Where(subs, IsUngraded), Row)

\* value_counts(dropna=False): the unmapped submissions are counted under NaN
TaCounts_KeepNa(subs, col) ==
  LET U == {i \in 1..Len(subs) :
              has_submission(subs[i]) /\ ~has_grade(subs[i])}
  IN [g \in {col[i] : i \in U} |-> Cardinality({i \in U : col[i] = g})]

\* ungraded_df["ta_group"].value_counts(dropna=True).to_dict()
TaCounts(subs, col) ==
  LET U == {i \in 1..Len(subs) :
              /\ has_submission(subs[i]) /\ ~has_grade(subs[i])
              /\ col[i] # NaN}
  IN [g \in {col[i] : i \in U} |-> Cardinality({i \in U : col[i] = g})]

\* the return of the aggregator on a non-empty frame
Processed(id, subs, col, breakdown, ta_groups_data) ==
  LET graded == Cardinality({i \in 1..Len(subs) : has_grade(subs[i])})
      ungraded == Cardinality({i \in 1..Len(subs) :
                    has_submission(subs[i]) /\ ~has_grade(subs[i])})
  IN Result(UngradedRows(id, subs, col, ta_groups_data),
            TaCounts(subs, col),
            Stats(id, Len(subs), graded, ungraded,
                  Round1(graded, Len(subs)), breakdown),
            None)

\* services/ta_processing.py: process_assignment_submissions_sync.
\* pd.json_normalize([]) is DataFrame(); from pandas 2.0 on its columns are
\* a RangeIndex, on which .columns.str raises AttributeError, which the
\* except branch turns into the error marker.
process_assignment_submissions_sync(id, assignment, student_to_ta_group, ta_groups_data, pd) ==
  LET subs == assignment.submissions
      col == [i \in 1..Len(subs) |->
                MapId(subs[i].student_id, student_to_ta_group)]
      grouped == GroupedBreakdown(subs, col)
  IN IF assignment.fetch # "ok" THEN ErrorMarker
     ELSE IF subs = <<>>
          THEN IF pd >= 2 THEN ErrorMarker ELSE EarlyReturn(id)
          ELSE Processed(id, subs, col,
                         grouped \o ZeroRows(grouped, ta_groups_data),
                         ta_groups_data)

\* (total_assigned * 0.7).astype("Int64") and (total_assigned * 0.2)
\* .astype("Int64") raise TypeError unless the products are whole numbers
PlaceholderCastOk(total) == total % 10 = 0 /\ total # 90

\* routers/ta_management.py: process_assignment_submissions_sync.  The
\* submissions are mapped by grader_id and no zero rows are added.
router_process_assignment_submissions_sync(id, assignment, ta_member_to_group, ta_groups_data) ==
  LET subs == assignment.submissions
      col == [i \in 1..Len(subs) |->
                MapId(subs[i].grader_id, ta_member_to_group)]
      grouped == GroupedBreakdown(subs, col)
  IN IF assignment.fetch # "ok" THEN ErrorMarker
     ELSE IF subs = <<>> THEN EarlyReturn(id)
     ELSE IF \E j \in 1..Len(grouped) :
               ~PlaceholderCastOk(grouped[j].total_assigned)
          THEN ErrorMarker
          ELSE Processed(id, subs, col, grouped, ta_groups_data)

\* ------------------------------------------------------------------------
\* The orchestrators: fan-out to the assignment pool, as_completed fan-in
\* ------------------------------------------------------------------------
Endpoints == {"ta_grading", "statistics", "distribution"}

\* a future of the assignment pool: pending, done (with a result, or with an
\* exception when raised), or collected by the as_completed loop
Future(state, raised, result) ==
  [state |-> state, raised |-> raised, result |-> result]

PendingFuture == Future("pending", FALSE, ErrorMarker)

\* the TA groups an endpoint keeps: get_ta_grading_info filters with
\* _is_ta_group, the other two on "Term Project" alone
ta_groups == IF endpoint = "ta_grading" THEN SelectSeq(groups, is_ta_group)
             ELSE FilterTAGroups(groups)

\* a dict is empty
IsEmptyDict(d) == DOMAIN d = {} \/ "empty" \in DOMAIN d

\* a worker of the assignment pool runs the services copy of the aggregator
services_job(i) ==
  /\ endpoint \in {"statistics", "distribution"}
  /\ futures[i].state = "pending"
  /\ futures' = [futures EXCEPT ![i] =
       Future("done", FALSE,
              process_assignment_submissions_sync(
                i, assignments[i], build_ta_member_mapping(ta_groups),
                ta_groups, pandas))]
  /\ UNCHANGED <<pandas, groups, assignments, endpoint, aggregate, response>>
  /\ UNCHANGED cacheVars
  /\ UNCHANGED serverVars
  /\ UNCHANGED moreVars

\* a worker of the assignment pool runs the router copy of the aggregator
router_job(i) ==
  /\ endpoint = "ta_grading"
  /\ futures[i].state = "pending"
  /\ futures' = [futures EXCEPT ![i] =
       Future("done", FALSE,
              router_process_assignment_submissions_sync(
                i, assignments[i], build_ta_member_mapping(ta_groups),
                ta_groups))]
  /\ UNCHANGED <<pandas, groups, assignments, endpoint, aggregate, response>>
  /\ UNCHANGED cacheVars
  /\ UNCHANGED serverVars
  /\ UNCHANGED moreVars

\* a job ends with an exception instead of a result
job_raises(i) ==
  /\ endpoint \in Endpoints
  /\ futures[i].state = "pending"
  /\ futures' = [futures EXCEPT ![i] = Future("done", TRUE, ErrorMarker)]
  /\ UNCHANGED <<pandas, groups, assignments, endpoint, aggregate, response>>
  /\ UNCHANGED cacheVars
  /\ UNCHANGED serverVars
  /\ UNCHANGED moreVars

\* a slip: the count of the last assignment kept instead of the sum
merge_ta_counts_Overwrite(dist, ta_counts) ==
  [g \in DOMAIN dist \cup DOMAIN ta_counts |->
     IF g \in DOMAIN ta_counts THEN ta_counts[g] ELSE dist[g]]

\* for ta, count in ta_counts.items():
\*     grading_distribution[ta] = grading_distribution.get(ta, 0) + int(count or 0)
merge_ta_counts(dist, ta_counts) ==
  [g \in DOMAIN dist \cup DOMAIN ta_counts |->
     Get(dist, g) + Get(ta_counts, g)]

\* one turn of the as_completed loop of get_ta_grading_info
ta_grading_collect(agg, fut) ==
  IF fut.raised THEN agg
  ELSE IF fut.result.err # None THEN agg
  ELSE [agg EXCEPT
          !.ungraded_submissions_raw =
             IF fut.result.ungraded_rows # <<>>
             THEN @ \o fut.result.ungraded_rows ELSE @,
          !.assignment_stats_raw =
             IF ~IsEmptyDict(fut.result.assignment_stats)
             THEN Append(@, fut.result.assignment_stats) ELSE @,
          !.grading_distribution =
             IF ~IsEmptyDict(fut.result.ta_counts)
             THEN merge_ta_counts(@, fut.result.ta_counts) ELSE @]

\* a slip: the exception of a job leaving the loop
statistics_collect_Propagates(agg, fut) ==
  IF fut.raised THEN [agg EXCEPT !.failed = TRUE]
  ELSE IF fut.result.err # None THEN agg
  ELSE [agg EXCEPT
          !.assignment_stats_raw =
             IF ~IsEmptyDict(fut.result.assignment_stats)
             THEN Append(@, fut.result.assignment_stats) ELSE @]

\* one turn of the as_completed loop of get_assignment_statistics_logic
statistics_collect(agg, fut) ==
  IF fut.raised THEN agg
  ELSE IF fut.result.err # None THEN agg
  ELSE [agg EXCEPT
          !.assignment_stats_raw =
             IF ~IsEmptyDict(fut.result.assignment_stats)
             THEN Append(@, fut.result.assignment_stats) ELSE @]

\* a slip: only the first counts that arrive are kept
distribution_collect_FirstWins(agg, fut) ==
  IF fut.raised THEN agg
  ELSE IF fut.result.err # None THEN agg
  ELSE [agg EXCEPT
          !.grading_distribution =
             IF ~IsEmptyDict(fut.result.ta_counts) /\ IsEmptyDict(@)
             THEN merge_ta_counts(@, fut.result.ta_counts) ELSE @]

\* one turn of the as_completed loop of get_grading_distribution
distribution_collect(agg, fut) ==
  IF fut.raised THEN agg
  ELSE IF fut.result.err # None THEN agg
  ELSE [agg EXCEPT
          !.grading_distribution =
             IF ~IsEmptyDict(fut.result.ta_counts)
             THEN merge_ta_counts(@, fut.result.ta_counts) ELSE @]

\* as_completed hands a finished future to the loop of the endpoint
collect(i) ==
  /\ endpoint \in Endpoints
  /\ response.status = "pending"
  /\ ~aggregate.failed
  /\ futures[i].state = "done"
  /\ aggregate' =
       CASE endpoint = "ta_grading" -> ta_grading_collect(aggregate, futures[i])
         [] endpoint = "statistics" -> statistics_collect(aggregate, futures[i])
         [] endpoint = "distribution" ->
              distribution_collect(aggregate, futures[i])
  /\ futures' = [futures EXCEPT ![i].state = "collected"]
  /\ UNCHANGED <<pandas, groups, assignments, endpoint, response>>
  /\ UNCHANGED cacheVars
  /\ UNCHANGED serverVars
  /\ UNCHANGED moreVars

\* AssignmentGradingStats(**st) succeeds: the required fields are there
ValidStats(st) == ~IsEmptyDict(st)

\* after the loop: the response models are built, bad rows skipped, and the
\* endpoint returns; an exception that left the loop becomes a 500
respond ==
  /\ endpoint \in Endpoints
  /\ response.status = "pending"
  /\ \/ aggregate.failed
     \/ \A i \in 1..Len(futures) : futures[i].state = "collected"
  /\ response' =
       IF aggregate.failed THEN Response("500", <<>>, <<>>, <<>>)
       ELSE CASE endpoint = "ta_grading" ->
                   Response("200", aggregate.ungraded_submissions_raw,
                            aggregate.grading_distribution,
                            SelectSeq(aggregate.assignment_stats_raw, ValidStats))
              [] endpoint = "statistics" ->
                   Response("200", <<>>, <<>>,
                            SelectSeq(aggregate.assignment_stats_raw, ValidStats))
              [] endpoint = "distribution" ->
                   Response("200", <<>>, aggregate.grading_distribution, <<>>)
  /\ UNCHANGED <<pandas, groups, assignments, endpoint, futures, aggregate>>
  /\ UNCHANGED cacheVars
  /\ UNCHANGED serverVars
  /\ UNCHANGED moreVars

\* the cache plays no part in a run of the aggregator
CacheIdle ==
  /\ hashSeed = [t \in Tokens |-> 1]
  /\ ta_groups_cache = <<>>
  /\ now = 0
  /\ last = Idle
  /\ rewritten = NoKey

\* ---- the aggregator called on one assignment, on any submissions
InitAgg ==
  /\ NoMore
  /\ CacheIdle
  /\ NoServer
  /\ pandas \in {1, 2}
  /\ groups \in GroupConfigs
  /\ endpoint \in {"ta_grading", "statistics"}
  /\ assignments \in
       {<<Assignment("fail", <<>>)>>}
         \cup {<<Assignment("ok", l)>> : l \in SubLists(MaxSubs)}
  /\ futures = <<PendingFuture>>
  /\ aggregate = EmptyAggregate
  /\ response = Pending

NextAgg ==
  \/ \E i \in 1..Len(futures) : services_job(i)
  \/ \E i \in 1..Len(futures) : router_job(i)

SpecAgg == InitAgg /\ [][NextAgg]_vars

\* ---- a request served by an endpoint over the assignments of a course
Sub(student_id, grader_id, submitted_at, grade, score) ==
  [student_id |-> student_id, grader_id |-> grader_id,
   submitted_at |-> submitted_at, grade |-> grade, score |-> score]

RunSubLists ==
  { <<>>,
    <<Sub("u1", None, "2024-05-01", None, None)>>,
    <<Sub("u1", None, None, None, "5.0")>>,
    <<Sub("u1", None, "2024-05-01", None, None),
      Sub("u2", None, "2024-05-01", "A", None)>>,
    <<Sub("u2", "u1", "2024-05-01", None, None)>> }

RunAssignments ==
  {Assignment("fail", <<>>)} \cup {Assignment("ok", l) : l \in RunSubLists}

InitRun ==
  /\ NoMore
  /\ CacheIdle
  /\ NoServer
  /\ pandas \in {1, 2}
  /\ groups \in GroupConfigs
  /\ endpoint \in Endpoints
  /\ assignments \in UNION {[1..k -> RunAssignments] : k \in 0..NumAssignments}
  /\ futures = [i \in 1..Len(assignments) |-> PendingFuture]
  /\ aggregate = EmptyAggregate
  /\ response = Pending

NextRun ==
  \/ \E i \in 1..Len(futures) : services_job(i)
  \/ \E i \in 1..Len(futures) : router_job(i)
  \/ \E i \in 1..Len(futures) : job_raises(i)
  \/ \E i \in 1..Len(futures) : collect(i)
  \/ respond

SpecRun == InitRun /\ [][NextRun]_vars

\* ------------------------------------------------------------------------
\* Properties of the orchestrators and of the aggregator
\* ------------------------------------------------------------------------
\* f[1] + ... + f[n]
RECURSIVE SumTo(_, _)
SumTo(f, n) == IF n = 0 THEN 0 ELSE f[n] + SumTo(f, n - 1)

\* the endpoint has returned
Responded == response.status # "pending"

\* the job of assignment i returned a result without an error marker
Succeeded(i) ==
  /\ futures[i].state # "pending"
  /\ ~futures[i].raised
  /\ futures[i].result.err = None

\* the job of assignment i returned an error marker, or raised
Failed(i) == futures[i].state # "pending" /\ ~Succeeded(i)

\* the names of the TA groups of the request
GroupNames == {ta_groups[k].name : k \in 1..Len(ta_groups)}

\* the total, over the assignments that succeeded, of the TA counts of g
CountsOfSucceeded(g) ==
  SumTo([i \in 1..Len(futures) |->
           IF Succeeded(i) THEN Get(futures[i].result.ta_counts, g) ELSE 0],
        Len(futures))

\* C5: whichever jobs return an error marker or raise, the endpoint returns
\* without an error, and what it returns holds the stats, the ungraded rows
\* and the TA counts of exactly the assignments that succeeded: each
\* succeeded assignment's stat once, its rows in order, its counts summed
\* into the distribution, and nothing of a failed assignment.
C5_OrchestratorResilience ==
  Responded =>
    /\ response.status = "200"
    /\ endpoint \in {"ta_grading", "statistics"} =>
         \A i \in 1..Len(futures) :
           SelectSeq(response.assignment_stats,
                     LAMBDA st : st.assignment_id = i)
             = IF Succeeded(i) THEN <<futures[i].result.assignment_stats>>
               ELSE <<>>
    /\ endpoint = "ta_grading" =>
         /\ \A i \in 1..Len(futures) :
              SelectSeq(response.ungraded_submissions,
                        LAMBDA row : row.assignment_id = i)
                = IF Succeeded(i) THEN futures[i].result.ungraded_rows
                  ELSE <<>>
         /\ response.total_ungraded = Len(response.ungraded_submissions)
    /\ endpoint \in {"ta_grading", "distribution"} =>
         /\ DOMAIN response.grading_distribution \subseteq GroupNames
         /\ \A g \in GroupNames :
              Get(response.grading_distribution, g) = CountsOfSucceeded(g)

\* a run has returned in which one assignment succeeded with TA counts and
\* another one failed
C5_Witness ==
  /\ response.status = "200"
  /\ \E i, j \in 1..Len(futures) :
       /\ Succeeded(i) /\ DOMAIN futures[i].result.ta_counts # {}
       /\ Failed(j)
  /\ DOMAIN response.grading_distribution # {}

\* C6: when every assignment of the course fails, the endpoint returns a
\* well-formed empty payload (no stats, no ungraded rows, an empty
\* distribution) and no error.
C6_AllFailEmptyAggregate ==
  (Responded /\ Len(futures) > 0 /\ \A i \in 1..Len(futures) : Failed(i)) =>
    response = Response("200", <<>>, <<>>, <<>>)

\* a run has returned in which one job raised and the other returned an
\* error marker
C6_Witness ==
  /\ Responded
  /\ \E i, j \in 1..Len(futures) :
       /\ futures[i].raised
       /\ ~futures[j].raised /\ futures[j].result.err # None
  /\ \A i \in 1..Len(futures) : Failed(i)

\* the ungraded value of g in the per-TA breakdown of a stat
BreakdownUngraded(st, g) ==
  LET b == st.ta_grading_breakdown
  IN SumTo([j \in 1..Len(b) |->
              IF b[j].ta_group = g THEN b[j].ungraded ELSE 0], Len(b))

\* C7 (as claimed): for every TA group, the sum over the assignments that
\* succeeded of the group's ungraded value in the per-TA breakdown equals the
\* group's count in the grading distribution (0 when absent).
C7_BreakdownSumsToDistribution ==
  (response.status = "200" /\ endpoint \in {"ta_grading", "distribution"}) =>
    \A g \in GroupNames :
      SumTo([i \in 1..Len(futures) |->
               IF Succeeded(i)
               THEN BreakdownUngraded(futures[i].result.assignment_stats, g)
               ELSE 0],
            Len(futures))
        = Get(response.grading_distribution, g)

\* C8 (as claimed): in the breakdown of every assignment whose aggregation
\* succeeds, every TA group passed to the aggregator appears exactly once,
\* whatever the submissions are.
C8_EveryGroupInBreakdown ==
  \A i \in 1..Len(futures) :
    (futures[i].state = "done" /\ Succeeded(i)) =>
      LET b == futures[i].result.assignment_stats.ta_grading_breakdown
      IN \A g \in GroupNames :
           Cardinality({j \in 1..Len(b) : b[j].ta_group = g}) = 1

\* C9 (as claimed): for an assignment with no submissions the aggregator
\* returns, without an error, a stat with total = graded = ungraded = 0 and
\* 100.0 percent graded, no ungraded rows and no TA counts.
C9_ZeroSubmissions ==
  \A i \in 1..Len(futures) :
    (/\ futures[i].state = "done" /\ ~futures[i].raised
     /\ assignments[i].fetch = "ok" /\ assignments[i].submissions = <<>>) =>
      LET r == futures[i].result
      IN /\ r.err = None
         /\ ~IsEmptyDict(r.assignment_stats)
         /\ r.assignment_stats.total_submissions = 0
         /\ r.assignment_stats.graded_submissions = 0
         /\ r.assignment_stats.ungraded_submissions = 0
         /\ r.assignment_stats.percentage_graded = 1000
         /\ r.ungraded_rows = <<>>
         /\ IsEmptyDict(r.ta_counts)

\* C10: the aggregator counts a submission as ungraded, and lists it in the
\* ungraded rows, exactly when it has a submitted timestamp and neither a
\* non-empty grade string nor a numeric score; it counts it as graded exactly
\* when it has one of the two; no submission is counted as both.
C10_UngradedIffSubmittedAndNoGrade ==
  \A i \in 1..Len(futures) :
    (/\ futures[i].state = "done" /\ Succeeded(i)
     /\ assignments[i].submissions # <<>>) =>
      LET subs == assignments[i].submissions
          r == futures[i].result
          G == {k \in 1..Len(subs) :
                  \/ subs[k].grade \notin {None, ""}
                  \/ subs[k].score \in NumericScores}
          U == {k \in 1..Len(subs) :
                  /\ subs[k].submitted_at # None
                  /\ subs[k].grade \in {None, ""}
                  /\ subs[k].score \notin NumericScores}
      IN /\ r.assignment_stats.ungraded_submissions = Cardinality(U)
         /\ r.assignment_stats.graded_submissions = Cardinality(G)
         /\ Len(r.ungraded_rows) = Cardinality(U)
         /\ {r.ungraded_rows[j].submission_id :
               j \in 1..Len(r.ungraded_rows)} = U
         /\ r.assignment_stats.ungraded_submissions
              + r.assignment_stats.graded_submissions
              <= r.assignment_stats.total_submissions

\* the aggregator has returned for an assignment with an ungraded submission
\* and a submission graded by its grade string alone
C10_Witness ==
  \E i \in 1..Len(futures) :
    /\ futures[i].state = "done" /\ Succeeded(i)
    /\ Len(futures[i].result.ungraded_rows) = 1
    /\ futures[i].result.assignment_stats.graded_submissions = 1
    /\ \E k \in 1..Len(assignments[i].submissions) :
         /\ assignments[i].submissions[k].grade = "A"
         /\ assignments[i].submissions[k].score = None

\* ------------------------------------------------------------------------
\* _to_thread: retry and timeout around a blocking call
\* (routers/ta_management.py, inside get_ta_grading_info)
\* ------------------------------------------------------------------------
\* the defaults of _to_thread: attempts = 3, base_delay = 0.4 s (here in ms)
attempts == 3
base_delay_ms == 400

\* what an attempt can end with: a result, or an exception (asyncio.wait_for
\* raises TimeoutError after timeout seconds; func raises the others)
Exceptions == {"TimeoutError", "ConnectionError", "ResourceDoesNotExist"}
Outcomes == {"ok"} \cup Exceptions

\* 2 ** n
RECURSIVE Pow2(_)
Pow2(n) == IF n = 0 THEN 1 ELSE 2 * Pow2(n - 1)

\* _to_thread(func) entered: last_exc = None, the loop at i = 0
StartCall(func, outcomes) ==
  [func |-> func, outcomes |-> outcomes, state |-> "running", i |-> 0,
   tries |-> 0, sleeps |-> <<>>, last_exc |-> None, ret |-> 0]

\* a slip: the exception of the first failed attempt kept
attempt_FirstError(c, outcome) ==
  IF outcome = "ok"
  THEN [c EXCEPT !.tries = @ + 1, !.state = "returned", !.ret = c.i + 1]
  ELSE [c EXCEPT !.tries = @ + 1, !.state = "except",
                 !.last_exc = IF @ = None THEN outcome ELSE @]

\* the try block of iteration i: return await wait_for(run_in_executor(...)),
\* or except Exception as ex: last_exc = ex
attempt(c, outcome) ==
  IF outcome = "ok"
  THEN [c EXCEPT !.tries = @ + 1, !.state = "returned", !.ret = c.i + 1]
  ELSE [c EXCEPT !.tries = @ + 1, !.state = "except", !.last_exc = outcome]

\* await asyncio.sleep(base_delay * (2 ** i)) in the except block, then the
\* next turn of for i in range(attempts), or the end of the loop
backoff(c) ==
  [c EXCEPT !.sleeps = Append(@, base_delay_ms * Pow2(c.i)),
            !.i = @ + 1,
            !.state = IF c.i + 1 < attempts THEN "running" ELSE "exhausted"]

\* everything but the call under way
restVars == <<upstream, arrived, enable_caching, tasks, ack,
              assignment_stats_cache, moreVars>>

to_thread_attempt ==
  /\ call.state = "running"
  /\ call' = attempt(call, call.outcomes[call.i + 1])
  /\ UNCHANGED <<cacheVars, pipeVars, restVars>>

to_thread_sleep ==
  /\ call.state = "except"
  /\ call' = backoff(call)
  /\ UNCHANGED <<cacheVars, pipeVars, restVars>>

\* raise last_exc
to_thread_raise ==
  /\ call.state = "exhausted"
  /\ call' = [call EXCEPT !.state = "raised"]
  /\ UNCHANGED <<cacheVars, pipeVars, restVars>>

\* ---- one call of _to_thread on a func of any behaviour
InitRetry ==
  /\ NoMore
  /\ CacheIdle
  /\ NoRequest
  /\ NoRefresh
  /\ upstream = UpstreamOk
  /\ call \in {StartCall("func", o) : o \in [1..attempts -> Outcomes]}

NextRetry ==
  \/ to_thread_attempt
  \/ to_thread_sleep
  \/ to_thread_raise

SpecRetry == InitRetry /\ [][NextRetry]_vars

\* the call is over
Finished(c) == c.state \in {"returned", "raised"}

\* C11: one call of _to_thread runs func at most attempts times, goes on
\* only after a failed attempt, returns the result of the first attempt that
\* succeeds, and raises, after attempts failed attempts and only then, the
\* exception of the last attempt.
C11_AttemptBound ==
  /\ call.tries <= attempts
  /\ \A k \in 1..call.tries : k < call.tries => call.outcomes[k] # "ok"
  /\ call.state = "returned" =>
       /\ call.ret = call.tries
       /\ call.outcomes[call.ret] = "ok"
  /\ call.state # "returned" =>
       /\ call.ret = 0
       /\ \A k \in 1..call.tries : call.outcomes[k] # "ok"
  /\ call.state \in {"exhausted", "raised"} =>
       /\ call.tries = attempts
       /\ call.last_exc = call.outcomes[attempts]

\* all attempts failed, the first and the last on different exceptions
C11_Witness ==
  /\ call.state = "raised"
  /\ call.outcomes[1] # call.outcomes[attempts]

\* C12: the wait after the failed attempt i is base_delay * 2^i, and a call
\* whose attempts all fail has made exactly attempts - 1 waits when it
\* raises: none after the final attempt.
C12_WaitsOnlyBeforeNextAttempt ==
  /\ \A k \in 1..Len(call.sleeps) :
       call.sleeps[k] = base_delay_ms * Pow2(k - 1)
  /\ call.state \in {"running", "returned"} => Len(call.sleeps) = call.i
  /\ call.state = "raised" => Len(call.sleeps) = attempts - 1

\* ------------------------------------------------------------------------
\* A request from its arrival: course, groups and assignments are loaded,
\* then the jobs are fanned out (get_ta_grading_info,
\* get_assignment_statistics_logic, get_grading_distribution)
\* ------------------------------------------------------------------------
\* what Canvas does on the lookups and listings of a request: at most one
\* of them fails; single is the outcome of the lookup of the one assignment
\* the request names (None: the request names none)
Upstreams ==
  { UpstreamOk,
    [UpstreamOk EXCEPT !.course = "not_found"],
    [UpstreamOk EXCEPT !.group_listing = "error"],
    [UpstreamOk EXCEPT !.member_fetch = "error"],
    [UpstreamOk EXCEPT !.assignment_listing = "error"],
    [UpstreamOk EXCEPT !.single = "ok"],
    [UpstreamOk EXCEPT !.single = "not_found"] }

\* func does the same on every attempt
Always(outcome) == [k \in 1..attempts |-> outcome]

\* what a lookup does, from what Canvas answers
LookupOutcome(answer) ==
  IF answer = "ok" THEN "ok" ELSE "ResourceDoesNotExist"

\* await loop.run_in_executor(thread_pool, func): one attempt, no retry
run_in_executor(func, outcome) ==
  [func |-> func, outcomes |-> <<outcome>>,
   state |-> IF outcome = "ok" THEN "returned" ELSE "raised",
   i |-> 0, tries |-> 1, sleeps |-> <<>>,
   last_exc |-> IF outcome = "ok" THEN None ELSE outcome,
   ret |-> IF outcome = "ok" THEN 1 ELSE 0]

\* a lookup as the endpoint makes it: get_ta_grading_info through
\* _to_thread, the other two through run_in_executor
lookup(func, answer) ==
  IF endpoint = "ta_grading"
  THEN StartCall(func, Always(LookupOutcome(answer)))
  ELSE run_in_executor(func, LookupOutcome(answer))

\* where a request stands before the fan-out
Stage(name) == Response(name, <<>>, <<>>, <<>>)

\* the endpoint has returned, with its payload or with an HTTPException
Returned == response.status \in {"200", "404", "500"}

\* the course lookup is started
load_course ==
  /\ endpoint \in Endpoints
  /\ response.status = "received"
  /\ call' = lookup("get_course", upstream.course)
  /\ response' = Stage("load_course")
  /\ UNCHANGED <<pandas, groups, assignments, endpoint, futures, aggregate>>
  /\ UNCHANGED <<cacheVars, restVars>>

\* the members of the groups as fetched: a failed fetch gives []
WithMembers(gs) ==
  [k \in 1..Len(gs) |->
     Group(gs[k].name,
           IF upstream.member_fetch = "ok" THEN gs[k].members ELSE <<>>)]

\* get_ta_grading_info catches a failed listing inside _f and goes on with
\* []; the other two endpoints let it reach the generic except (a failed
\* listing of the assignments is one that fails in the fallback call too)
ListingRaises ==
  /\ endpoint # "ta_grading"
  /\ \/ upstream.group_listing # "ok"
     \/ upstream.assignment_listing # "ok"

\* submit all jobs: one future per assignment
fan_out(gs, as) ==
  /\ groups' = WithMembers(gs)
  /\ assignments' = as
  /\ futures' = [i \in 1..Len(as) |-> PendingFuture]
  /\ aggregate' = EmptyAggregate
  /\ response' = Pending

\* the assignment a request names, when Canvas has it
SingleAssignment == Assignment("ok", <<Sub("u1", None, "2024-05-01", None, None)>>)

\* the course lookup is over: an exception reaches the generic except (500);
\* otherwise groups and assignments are listed and, when the request names
\* an assignment, its lookup is started, else the jobs are submitted
course_loaded ==
  /\ response.status = "load_course"
  /\ Finished(call)
  /\ LET gs == IF upstream.group_listing = "ok" THEN groups ELSE <<>>
         as == IF upstream.assignment_listing = "ok" THEN assignments ELSE <<>>
     IN IF call.state = "raised" \/ ListingRaises
        THEN /\ response' = Stage("500")
             /\ UNCHANGED <<groups, assignments, futures, aggregate, call>>
        ELSE IF upstream.single # None
        THEN /\ call' = lookup("get_assignment", upstream.single)
             /\ response' = Stage("load_assignment")
             /\ groups' = gs
             /\ assignments' = as
             /\ UNCHANGED <<futures, aggregate>>
        ELSE /\ fan_out(gs, as)
             /\ UNCHANGED call
  /\ UNCHANGED <<pandas, endpoint>>
  /\ UNCHANGED <<cacheVars, restVars>>

\* the lookup of the named assignment is over: any exception becomes a 404
assignment_loaded ==
  /\ response.status = "load_assignment"
  /\ Finished(call)
  /\ IF call.state = "raised"
     THEN /\ response' = Stage("404")
          /\ UNCHANGED <<groups, assignments, futures, aggregate>>
     ELSE fan_out(groups, <<SingleAssignment>>)
  /\ UNCHANGED <<pandas, endpoint, call>>
  /\ UNCHANGED <<cacheVars, restVars>>

\* a second caller request reaches the server
arrive ==
  /\ arrived = "none"
  /\ arrived' = "waiting"
  /\ UNCHANGED <<cacheVars, pipeVars>>
  /\ UNCHANGED <<upstream, call, enable_caching, tasks, ack,
                 assignment_stats_cache>>
  /\ UNCHANGED moreVars

\* The endpoints are coroutines on the one event-loop thread.  From the
\* submission of the jobs to the return, the loop
\* `for fut in as_completed(...)` has no await: the thread stays in it.
EventLoopBlocked == response.status = "pending"

\* the event loop runs the handler of the second request
serve_other ==
  /\ arrived = "waiting"
  /\ ~EventLoopBlocked
  /\ arrived' = "answered"
  /\ UNCHANGED <<cacheVars, pipeVars>>
  /\ UNCHANGED <<upstream, call, enable_caching, tasks, ack,
                 assignment_stats_cache>>
  /\ UNCHANGED moreVars

\* the request is for course c1 under the credential tA
RequestKey == generate_cache_key("c1", "tA")

\* the assignments of the course of a request
ReqAssignments ==
  { Assignment("ok", <<Sub("u1", None, "2024-05-01", None, None)>>),
    Assignment("transient", <<Sub("u1", None, "2024-05-01", None, None)>>),
    Assignment("transient", <<>>) }

InitRequest ==
  /\ NoMore
  /\ CacheIdle
  /\ pandas = 2
  /\ groups = <<Group("Alpha", <<"u1">>), Group("Beta", <<"u2">>)>>
  /\ endpoint \in Endpoints
  /\ assignments \in UNION {[1..k -> ReqAssignments] : k \in 0..NumAssignments}
  /\ futures = <<>>
  /\ aggregate = EmptyAggregate
  /\ response = Stage("received")
  /\ upstream \in Upstreams
  /\ call = NoCall
  /\ arrived = "none"
  /\ enable_caching = TRUE
  /\ tasks = <<>>
  /\ ack = NoAck
  /\ assignment_stats_cache \in {<<>>, <<CacheEntry(RequestKey, "v1", 0, "tA")>>}

NextRequest ==
  \/ load_course
  \/ to_thread_attempt
  \/ to_thread_sleep
  \/ to_thread_raise
  \/ course_loaded
  \/ assignment_loaded
  \/ \E i \in 1..Len(futures) : services_job(i)
  \/ \E i \in 1..Len(futures) : router_job(i)
  \/ \E i \in 1..Len(futures) : job_raises(i)
  \/ \E i \in 1..Len(futures) : collect(i)
  \/ respond
  \/ arrive
  \/ serve_other

SpecRequest == InitRequest /\ [][NextRequest]_vars

\* ------------------------------------------------------------------------
\* Properties of a request from its arrival
\* ------------------------------------------------------------------------
\* what the job of the endpoint returns on assignment a
JobResult(i, a) ==
  IF endpoint = "ta_grading"
  THEN router_process_assignment_submissions_sync(
         i, a, build_ta_member_mapping(ta_groups), ta_groups)
  ELSE process_assignment_submissions_sync(
         i, a, build_ta_member_mapping(ta_groups), ta_groups, pandas)

\* C13 (as claimed): a transient failure of get_submissions is retried, so
\* the job of an assignment whose first fetch fails and whose second would
\* succeed returns what it returns when the fetch succeeds; and a run that
\* reached the fan-out returns a payload.
C13_TransientFetchRetried ==
  /\ \A i \in 1..Len(futures) :
       (/\ futures[i].state # "pending"
        /\ ~futures[i].raised
        /\ assignments[i].fetch = "transient") =>
         futures[i].result = JobResult(i, [assignments[i] EXCEPT !.fetch = "ok"])
  /\ (Returned /\ futures # <<>>) => response.status = "200"

\* C14 (as claimed): a lookup of the course, or of the one assignment the
\* request names, that Canvas answers with not-found is attempted once: no
\* wait and no second attempt follow the ResourceDoesNotExist.
C14_NotFoundNotRetried ==
  (call.func \in {"get_course", "get_assignment"}
     /\ call.last_exc = "ResourceDoesNotExist") =>
    /\ call.tries = 1
    /\ call.sleeps = <<>>
    /\ call.state \in {"except", "raised"}

\* C15 (as claimed): the endpoint returns a not-found error exactly when
\* the course, or the one assignment the request names, does not exist, and
\* its payload on every other upstream failure (group listing, member
\* fetch, assignment listing, per-assignment fetch); it returns no other
\* error.
C15_OnlyNotFoundEscalates ==
  Returned =>
    response.status =
      IF upstream.course = "not_found" \/ upstream.single = "not_found"
      THEN "404" ELSE "200"

\* the run is waiting for jobs to complete
WaitingForJobs ==
  /\ response.status = "pending"
  /\ \E i \in 1..Len(futures) : futures[i].state = "pending"

\* C17 (as claimed): while a run waits for jobs to complete, a caller
\* request that has arrived can be answered.
C17_OtherRequestServedDuringWait ==
  (arrived = "waiting" /\ WaitingForJobs) => ENABLED serve_other

\* C20 (as claimed): a read whose key holds a fresh entry is answered from
\* the cache, without any upstream call and without jobs; a read on a cold
\* cache that returns its payload has written it to the cache.
C20_ReadIsCacheChecked ==
  /\ Has(assignment_stats_cache, RequestKey) =>
       /\ call = NoCall
       /\ futures = <<>>
  /\ response.status = "200" =>
       \/ Has(assignment_stats_cache, RequestKey)
       \/ Has(ta_groups_cache, RequestKey)

\* ------------------------------------------------------------------------
\* Order of completion
\* ------------------------------------------------------------------------
\* one turn of the as_completed loop of the endpoint
collect_one(agg, fut) ==
  CASE endpoint = "ta_grading" -> ta_grading_collect(agg, fut)
    [] endpoint = "statistics" -> statistics_collect(agg, fut)
    [] endpoint = "distribution" -> distribution_collect(agg, fut)

\* the accumulators after the futures 1..k were merged in submission order
RECURSIVE MergeInOrder(_)
MergeInOrder(k) ==
  IF k = 0 THEN EmptyAggregate
  ELSE collect_one(MergeInOrder(k - 1), futures[k])

\* the elements of a list, as a set
Range(s) == {s[k] : k \in 1..Len(s)}

\* how often x is in the list s
Count(s, x) == Cardinality({k \in 1..Len(s) : s[k] = x})

\* two lists hold the same elements the same number of times
SameBag(s, t) ==
  /\ Len(s) = Len(t)
  /\ \A x \in Range(s) : Count(s, x) = Count(t, x)

\* C19: whatever the order in which the jobs complete, the endpoint returns
\* what the merge of the same results in submission order gives: the same
\* distribution map, the same stats as a set, the same ungraded rows as a
\* multiset.
C19_MergeOrderIndependent ==
  response.status = "200" =>
    LET canon == MergeInOrder(Len(futures))
    IN /\ endpoint \in {"ta_grading", "distribution"} =>
            response.grading_distribution = canon.grading_distribution
       /\ endpoint \in {"ta_grading", "statistics"} =>
            /\ Range(response.assignment_stats)
                 = {st \in Range(canon.assignment_stats_raw) : ValidStats(st)}
            /\ Len(response.assignment_stats)
                 = Len(SelectSeq(canon.assignment_stats_raw, ValidStats))
       /\ endpoint = "ta_grading" =>
            SameBag(response.ungraded_submissions,
                    canon.ungraded_submissions_raw)

\* a run has returned whose second job was merged before its first one
C19_Witness ==
  /\ response.status = "200"
  /\ Len(response.assignment_stats) = 2
  /\ response.assignment_stats[1].assignment_id = 2
  /\ response.assignment_stats[2].assignment_id = 1

\* ------------------------------------------------------------------------
\* Background refresh (routers/background.py)
\* ------------------------------------------------------------------------
\* the longest queue of refresh tasks
MaxTasks == 2

\* a task given to BackgroundTasks.add_task.  state: "queued" until the
\* response of its trigger is sent and the task is called, then "running"
Task(name, course_id, api_token, state) ==
  [name |-> name, course_id |-> course_id, api_token |-> api_token,
   state |-> state]

\* what a trigger returns: its dict with "status": "queued", or the 400
Ack(status_code, status, names) ==
  [status_code |-> status_code, status |-> status, tasks |-> names]

\* a slip: the refresh awaited in the handler instead of being queued
add_task_Awaited(ts, name, course_id, api_token) ==
  Append(ts, Task(name, course_id, api_token, "running"))

\* background_tasks.add_task(refresh_..._task, request, ...)
add_task(ts, name, course_id, api_token) ==
  Append(ts, Task(name, course_id, api_token, "queued"))

\* what a trigger leaves alone
triggerFrame ==
  <<cacheVars, pipeVars, upstream, call, arrived, enable_caching,
    assignment_stats_cache, moreVars>>

\* trigger_ta_groups_refresh
trigger_ta_groups_refresh(course_id, api_token) ==
  /\ Len(tasks) < MaxTasks
  /\ IF ~enable_caching
     THEN /\ ack' = Ack("400", "error", <<>>)
          /\ UNCHANGED tasks
     ELSE /\ tasks' = add_task(tasks, "ta_groups", course_id, api_token)
          /\ ack' = Ack("200", "queued", <<>>)
  /\ UNCHANGED triggerFrame

\* trigger_assignment_stats_refresh
trigger_assignment_stats_refresh(course_id, api_token) ==
  /\ Len(tasks) < MaxTasks
  /\ IF ~enable_caching
     THEN /\ ack' = Ack("400", "error", <<>>)
          /\ UNCHANGED tasks
     ELSE /\ tasks' = add_task(tasks, "assignment_stats", course_id, api_token)
          /\ ack' = Ack("200", "queued", <<>>)
  /\ UNCHANGED triggerFrame

\* trigger_full_refresh: both tasks, in this order
trigger_full_refresh(course_id, api_token) ==
  /\ Len(tasks) + 1 < MaxTasks
  /\ IF ~enable_caching
     THEN /\ ack' = Ack("400", "error", <<>>)
          /\ UNCHANGED tasks
     ELSE /\ tasks' = add_task(add_task(tasks, "ta_groups", course_id, api_token),
                               "assignment_stats", course_id, api_token)
          /\ ack' = Ack("200", "queued", <<"ta_groups", "assignment_stats">>)
  /\ UNCHANGED triggerFrame

\* how Canvas may answer a refresh
RefreshUpstreams ==
  { UpstreamOk,
    [UpstreamOk EXCEPT !.course = "not_found"],
    [UpstreamOk EXCEPT !.group_listing = "error"],
    [UpstreamOk EXCEPT !.member_fetch = "error"],
    [UpstreamOk EXCEPT !.assignment_listing = "error"] }

\* after the response is sent the next task is called: its upstream calls
\* begin
refresh_start(up) ==
  /\ tasks # <<>>
  /\ tasks[1].state = "queued"
  /\ tasks' = [tasks EXCEPT ![1].state = "running"]
  /\ upstream' = up
  /\ UNCHANGED <<cacheVars, pipeVars>>
  /\ UNCHANGED <<call, arrived, enable_caching, ack, assignment_stats_cache>>
  /\ UNCHANGED moreVars

\* an exception leaves the try block of refresh_ta_groups_task: the course
\* lookup or the group listing raised (a failed member fetch gives [])
ta_groups_refresh_raises(up) ==
  up.course # "ok" \/ up.group_listing # "ok"

\* get_assignment_statistics_logic raises its HTTPException
assignment_stats_refresh_raises(up) ==
  up.course # "ok" \/ up.group_listing # "ok" \/ up.assignment_listing # "ok"

\* a slip: the failure stored in place of the data
refresh_write_StoresFailure(c, raised, key, value, t, by) ==
  TTLCache_set(c, key, IF raised THEN <<>> ELSE value, t, by, MaxSize).cache

\* the end of a refresh task: set_cached_... is the last statement of the
\* try block; the except block only logs
refresh_write(c, raised, key, value, t, by) ==
  IF raised THEN c ELSE TTLCache_set(c, key, value, t, by, MaxSize).cache

\* refresh_ta_groups_task, to its end, on the groups gs of the course
refresh_ta_groups_task(gs) ==
  /\ tasks # <<>>
  /\ tasks[1].state = "running"
  /\ tasks[1].name = "ta_groups"
  /\ LET key == generate_cache_key(tasks[1].course_id, tasks[1].api_token)
         raised == ta_groups_refresh_raises(upstream)
     IN /\ ta_groups_cache' =
             refresh_write(ta_groups_cache, raised, key,
                           WithMembers(FilterTAGroups(gs)), now,
                           tasks[1].api_token)
        /\ last' = IF raised THEN last
                   ELSE Call("set", Ret(None, FALSE), FALSE, 0)
        /\ rewritten' = IF ~raised /\ Has(ta_groups_cache, key) THEN key
                        ELSE rewritten
  /\ tasks' = Tail(tasks)
  /\ UNCHANGED <<hashSeed, now>>
  /\ UNCHANGED pipeVars
  /\ UNCHANGED <<upstream, call, arrived, enable_caching, ack,
                 assignment_stats_cache>>
  /\ UNCHANGED moreVars

\* the accumulators of get_assignment_statistics_logic after the jobs of the
\* assignments 1..k were merged
RECURSIVE StatsMerged(_, _, _)
StatsMerged(as, gs, k) ==
  IF k = 0 THEN EmptyAggregate
  ELSE statistics_collect(
         StatsMerged(as, gs, k - 1),
         Future("done", FALSE,
                process_assignment_submissions_sync(
                  k, as[k], build_ta_member_mapping(gs), gs, pandas)))

\* what get_assignment_statistics_logic returns
get_assignment_statistics_logic(as, gs) ==
  SelectSeq(StatsMerged(as, WithMembers(FilterTAGroups(gs)), Len(as))
              .assignment_stats_raw,
            ValidStats)

\* refresh_assignment_stats_task, to its end
refresh_assignment_stats_task(gs, as) ==
  /\ tasks # <<>>
  /\ tasks[1].state = "running"
  /\ tasks[1].name = "assignment_stats"
  /\ assignment_stats_cache' =
       refresh_write(assignment_stats_cache,
                     assignment_stats_refresh_raises(upstream),
                     generate_cache_key(tasks[1].course_id, tasks[1].api_token),
                     get_assignment_statistics_logic(as, gs), now,
                     tasks[1].api_token)
  /\ tasks' = Tail(tasks)
  /\ UNCHANGED <<cacheVars, pipeVars>>
  /\ UNCHANGED <<upstream, call, arrived, enable_caching, ack>>
  /\ UNCHANGED moreVars

\* the clock advances
RefreshTick ==
  /\ now < MaxTime
  /\ now' = now + 1
  /\ UNCHANGED <<hashSeed, ta_groups_cache, last, rewritten>>
  /\ UNCHANGED <<pipeVars, serverVars, moreVars>>

\* the courses a refresh may find
RefreshAssignments ==
  { <<Assignment("ok", <<Sub("u1", None, "2024-05-01", None, None)>>)>>,
    <<Assignment("fail", <<>>)>> }

InitRefresh ==
  /\ NoMore
  /\ CacheIdle
  /\ NoRequest
  /\ upstream = UpstreamOk
  /\ call = NoCall
  /\ arrived = "none"
  /\ enable_caching \in BOOLEAN
  /\ tasks = <<>>
  /\ ack = NoAck
  /\ assignment_stats_cache = <<>>

NextRefresh ==
  \/ trigger_ta_groups_refresh("c1", "tA")
  \/ trigger_assignment_stats_refresh("c1", "tA")
  \/ trigger_full_refresh("c1", "tA")
  \/ \E up \in RefreshUpstreams : refresh_start(up)
  \/ \E gs \in GroupConfigs : refresh_ta_groups_task(gs)
  \/ \E gs \in GroupConfigs, as \in RefreshAssignments :
       refresh_assignment_stats_task(gs, as)
  \/ RefreshTick

SpecRefresh == InitRefresh /\ [][NextRefresh]_vars

\* ------------------------------------------------------------------------
\* Properties of the background refresh
\* ------------------------------------------------------------------------
\* a step in which a trigger request is answered
TriggerStep == Len(tasks') > Len(tasks) \/ ack' # ack

\* a step of a refresh task: it is called (its upstream calls begin), or it
\* ends, or a cache is written
RefreshStep ==
  \/ upstream' # upstream
  \/ ta_groups_cache' # ta_groups_cache
  \/ assignment_stats_cache' # assignment_stats_cache
  \/ Len(tasks') < Len(tasks)
  \/ \E k \in 1..Len(tasks) :
       k <= Len(tasks') /\ tasks[k].state = "queued"
         /\ tasks'[k].state = "running"

\* C16: a trigger is answered "queued" (when caching is enabled) in a step
\* that makes no upstream call and writes no cache and in which the tasks
\* it queued have not been called; every step of a refresh task is a step
\* of a task whose trigger was answered "queued" before, and it leaves that
\* answer as it was, whether the task fails or not.
C16_AckBeforeRefresh ==
  [][ /\ TriggerStep =>
           /\ enable_caching =>
                ack'.status_code = "200" /\ ack'.status = "queued"
           /\ upstream' = upstream
           /\ ta_groups_cache' = ta_groups_cache
           /\ assignment_stats_cache' = assignment_stats_cache
           /\ \A k \in 1..Len(tasks') :
                tasks'[k].state = "queued" \/ (k <= Len(tasks) /\ tasks'[k] = tasks[k])
      /\ RefreshStep =>
           /\ tasks # <<>>
           /\ ack.status = "queued"
           /\ ack' = ack
    ]_vars

\* a trigger was answered "queued" and its task has not been called
C16_Witness ==
  /\ ack.status = "queued"
  /\ tasks # <<>>
  /\ \A k \in 1..Len(tasks) : tasks[k].state = "queued"
  /\ ta_groups_cache = <<>>
  /\ assignment_stats_cache = <<>>

\* the entry of key in c is (value, t)
Holds(c, key, value, t) ==
  /\ Has(c, key)
  /\ Lookup(c, key).value = value
  /\ Lookup(c, key).ts = t

\* C18: a refresh task that ends with an exception leaves both caches as
\* they were; a cache changes only in the step that ends a refresh task
\* without an exception, and then the entry of the task's key holds the
\* data of this run, written at the current time.
C18_FailedRefreshLeavesCache ==
  [][ /\ \A gs \in GroupConfigs :
           (refresh_ta_groups_task(gs) /\ ta_groups_refresh_raises(upstream)) =>
             /\ ta_groups_cache' = ta_groups_cache
             /\ assignment_stats_cache' = assignment_stats_cache
      /\ \A gs \in GroupConfigs, as \in RefreshAssignments :
           (refresh_assignment_stats_task(gs, as)
              /\ assignment_stats_refresh_raises(upstream)) =>
             /\ ta_groups_cache' = ta_groups_cache
             /\ assignment_stats_cache' = assignment_stats_cache
      /\ ta_groups_cache' # ta_groups_cache =>
           /\ tasks # <<>> /\ tasks[1].name = "ta_groups"
           /\ tasks' = Tail(tasks)
           /\ ~ta_groups_refresh_raises(upstream)
           /\ \E gs \in GroupConfigs :
                Holds(ta_groups_cache',
                      generate_cache_key(tasks[1].course_id, tasks[1].api_token),
                      WithMembers(FilterTAGroups(gs)), now)
      /\ assignment_stats_cache' # assignment_stats_cache =>
           /\ tasks # <<>> /\ tasks[1].name = "assignment_stats"
           /\ tasks' = Tail(tasks)
           /\ ~assignment_stats_refresh_raises(upstream)
           /\ \E gs \in GroupConfigs, as \in RefreshAssignments :
                Holds(assignment_stats_cache',
                      generate_cache_key(tasks[1].course_id, tasks[1].api_token),
                      get_assignment_statistics_logic(as, gs), now)
    ]_vars

\* the last refresh failed on the course lookup, and the entry written by
\* an earlier refresh, stale by now, is still there
C18_Witness ==
  /\ tasks = <<>>
  /\ upstream.course = "not_found"
  /\ Has(ta_groups_cache, RequestKey)
  /\ \E ttl \in TTLs : now - Lookup(ta_groups_cache, RequestKey).ts > ttl

\* ------------------------------------------------------------------------
\* Group membership resolution (routers/statistics.py, distribution.py,
\* submissions.py: the "Term Project" filter, then build_ta_member_mapping)
\* ------------------------------------------------------------------------
MaxMembers == 2

\* what member.get("id") can give: an int, nothing, or a value that is no int
MemberIds == UserIds \cup {None, "x7"}

\* the members a group may list
MemberLists == UNION {[1..k -> MemberIds] : k \in 0..MaxMembers}

\* the groups a course may have, in the order course.get_groups lists them
CourseGroups ==
  UNION {[1..k -> {Group(n, ms) : n \in {"Alpha", "Beta", "Term Project 1"},
                                  ms \in MemberLists}] : k \in 0..2}

\* the endpoint keeps the groups that are no "Term Project" group and builds
\* the map from them
resolve_members ==
  /\ ~member_map.built
  /\ member_map' = Mapping(TRUE, build_ta_member_mapping(ta_groups))
  /\ UNCHANGED <<cacheVars, pipeVars, serverVars, seen, threads, lock,
                 callers, assignment_thread_pool_executor, resolvers, executor>>

InitMembers ==
  /\ CacheIdle
  /\ NoServer
  /\ NoMore
  /\ pandas = 2
  /\ groups \in CourseGroups
  /\ endpoint \in {"statistics", "distribution"}
  /\ assignments = <<>>
  /\ futures = <<>>
  /\ aggregate = EmptyAggregate
  /\ response = Pending

NextMembers == resolve_members

SpecMembers == InitMembers /\ [][NextMembers]_vars

\* group i of the course lists member u
Lists(i, u) == \E j \in 1..Len(groups[i].members) : groups[i].members[j] = u

\* the groups of the course that are no "Term Project" group and list u
Listing(u) ==
  {i \in 1..Len(groups) : groups[i].name \notin TermProjectNames /\ Lists(i, u)}

\* C22: the map built for a run holds exactly the members with a valid id
\* that some kept group lists, each under the name of the last such group in
\* iteration order; no name in it contains "Term Project"; members with a
\* missing or non-integer id are left out, and the map is built all the same.
C22_MembershipResolution ==
  /\ ~member_map.built => ENABLED resolve_members
  /\ member_map.built =>
       /\ DOMAIN member_map.map = {u \in UserIds : Listing(u) # {}}
       /\ \A u \in DOMAIN member_map.map :
            /\ \E i \in Listing(u) :
                 /\ \A j \in Listing(u) : j <= i
                 /\ member_map.map[u] = groups[i].name
            /\ member_map.map[u] \notin TermProjectNames

\* a map built from two kept groups that list the same member under different
\* names, one of them next to a member without id or with a non-integer id
C22_Witness ==
  /\ member_map.built
  /\ \E u \in UserIds : \E i, j \in Listing(u) :
       /\ groups[i].name # groups[j].name
       /\ Lists(i, None) \/ Lists(i, "x7")

\* ------------------------------------------------------------------------
\* Submissions of students who are in no TA group
\* ------------------------------------------------------------------------
\* a kept group named g lists the student of submission k of assignment i
AssignedTo(i, k, g) ==
  \E j \in 1..Len(ta_groups) :
    /\ ta_groups[j].name = g
    /\ \E n \in 1..Len(ta_groups[j].members) :
         ta_groups[j].members[n] = assignments[i].submissions[k].student_id

\* the submissions of assignment i that are submitted and have no grade
UngradedOf(i) ==
  LET subs == assignments[i].submissions
  IN {k \in 1..Len(subs) :
        /\ subs[k].submitted_at # None
        /\ subs[k].grade \in {None, ""}
        /\ subs[k].score \notin NumericScores}

\* the submissions of assignment i that have a grade
GradedOf(i) ==
  LET subs == assignments[i].submissions
  IN {k \in 1..Len(subs) :
        subs[k].grade \notin {None, ""} \/ subs[k].score \in NumericScores}

MaxClock == 4

\* the ttl the freshness of an entry is asked with
LongTTLs == {5}

\* a slip: fresh as long as get returns the value
TTLCache_is_fresh_WholeTtl(c, key, ttl, t) ==
  IF ~Has(c, key) THEN None
  ELSE IF t - Lookup(c, key).ts <= ttl THEN "True" ELSE "False"

\* TTLCache.is_fresh with freshness_threshold = 0.8 (age < ttl * 0.8, in
\* tenths); get_age gives None for a key without entry
TTLCache_is_fresh(c, key, ttl, t) ==
  IF ~Has(c, key) THEN None
  ELSE IF (t - Lookup(c, key).ts) * 10 < ttl * 8 THEN "True" ELSE "False"

\* is_fresh is None or not is_fresh
should_refresh(is_fresh) == IF is_fresh \in {None, "False"} THEN "True" ELSE "False"

\* what a read tells about the entry
Reported(ret) ==
  IF ret.value = None THEN "absent"
  ELSE IF ret.is_stale THEN "stale" ELSE "fresh"

\* set_cached_assignment_stats
set_cached_assignment_stats(course_id, api_token, value) ==
  LET key == generate_cache_key(course_id, api_token)
      r == TTLCache_set(assignment_stats_cache, key, value, now, api_token,
                        MaxSize)
  IN /\ assignment_stats_cache' = r.cache
     /\ last' = Call("set", Ret(None, FALSE), r.victim > 0, r.victim)
     /\ seen' = [seen EXCEPT ![<<course_id, api_token>>] = "fresh"]
     /\ UNCHANGED <<hashSeed, ta_groups_cache, now, rewritten, member_map,
                    threads, lock, callers,
                    assignment_thread_pool_executor, resolvers, executor>>
     /\ UNCHANGED pipeVars
     /\ UNCHANGED <<upstream, call, arrived, enable_caching, tasks, ack>>

\* get_cached_assignment_stats
get_cached_assignment_stats(course_id, api_token, ttl) ==
  LET r == TTLCache_get(assignment_stats_cache,
                        generate_cache_key(course_id, api_token), ttl, now)
  IN /\ assignment_stats_cache' = r.cache
     /\ last' = Call("get", r.ret,
                     Len(r.cache) < Len(assignment_stats_cache), 0)
     /\ seen' = [seen EXCEPT ![<<course_id, api_token>>] = Reported(r.ret)]
     /\ UNCHANGED <<hashSeed, ta_groups_cache, now, rewritten, member_map,
                    threads, lock, callers,
                    assignment_thread_pool_executor, resolvers, executor>>
     /\ UNCHANGED pipeVars
     /\ UNCHANGED <<upstream, call, arrived, enable_caching, tasks, ack>>

\* get_cached_assignment_stats_stale_ok
get_cached_assignment_stats_stale_ok(course_id, api_token, ttl, stale_ttl) ==
  LET r == TTLCache_get_stale_ok(assignment_stats_cache,
                                 generate_cache_key(course_id, api_token),
                                 ttl, stale_ttl, now)
  IN /\ assignment_stats_cache' = r.cache
     /\ last' = Call("get_stale_ok", r.ret,
                     Len(r.cache) < Len(assignment_stats_cache), 0)
     /\ seen' = [seen EXCEPT ![<<course_id, api_token>>] = Reported(r.ret)]
     /\ UNCHANGED <<hashSeed, ta_groups_cache, now, rewritten, member_map,
                    threads, lock, callers,
                    assignment_thread_pool_executor, resolvers, executor>>
     /\ UNCHANGED pipeVars
     /\ UNCHANGED <<upstream, call, arrived, enable_caching, tasks, ack>>

\* should_refresh_assignment_stats_cache -> TTLCache.is_fresh -> get_age
should_refresh_assignment_stats_cache(course_id, api_token, ttl) ==
  LET is_fresh == TTLCache_is_fresh(assignment_stats_cache,
                                    generate_cache_key(course_id, api_token),
                                    ttl, now)
  IN /\ last' = Call("should_refresh", Ret(should_refresh(is_fresh), FALSE),
                     FALSE, 0)
     /\ UNCHANGED <<hashSeed, ta_groups_cache, now, rewritten>>
     /\ UNCHANGED pipeVars
     /\ UNCHANGED serverVars
     /\ UNCHANGED moreVars

\* get_cache_stats -> TTLCache.stats: reads the size, changes nothing
get_cache_stats ==
  /\ last' = Call("stats", Ret(None, FALSE), FALSE, 0)
  /\ UNCHANGED <<hashSeed, ta_groups_cache, now, rewritten>>
  /\ UNCHANGED pipeVars
  /\ UNCHANGED serverVars
  /\ UNCHANGED moreVars

\* the clock advances between calls
Elapse ==
  /\ now < MaxClock
  /\ now' = now + 1
  /\ last' = Idle
  /\ UNCHANGED <<hashSeed, ta_groups_cache, rewritten>>
  /\ UNCHANGED pipeVars
  /\ UNCHANGED serverVars
  /\ UNCHANGED moreVars

InitLife ==
  /\ NoMore
  /\ hashSeed = [t \in Tokens |-> IF t = "tA" THEN 1 ELSE 2]
  /\ ta_groups_cache = <<>>
  /\ now = 0
  /\ last = Idle
  /\ rewritten = NoKey
  /\ NoRequest
  /\ NoServer

NextLife ==
  \/ \E r \in Requests, v \in {"v1"} : set_cached_assignment_stats(r[1], r[2], v)
  \/ \E r \in Requests, ttl \in TTLs :
       get_cached_assignment_stats(r[1], r[2], ttl)
  \/ \E r \in Requests, ttl \in TTLs, s \in StaleTTLs :
       get_cached_assignment_stats_stale_ok(r[1], r[2], ttl, s)
  \/ \E r \in Requests, ttl \in LongTTLs :
       should_refresh_assignment_stats_cache(r[1], r[2], ttl)
  \/ clear_all_caches
  \/ get_cache_stats
  \/ Elapse

SpecLife == InitLife /\ [][NextLife]_vars

\* the age of the entry of key in c
Age(c, key) == now - Lookup(c, key).ts

\* C21: is_fresh gives True exactly for a key with an entry of age below
\* 0.8 * ttl, False for an entry of any other age and None for a key without
\* entry; should_refresh_assignment_stats_cache gives True exactly when
\* is_fresh gives None or False; and the call leaves every entry, its value
\* and its timestamp as they were.
C21_FreshnessCheck ==
  [][ \A r \in Requests, ttl \in LongTTLs :
        should_refresh_assignment_stats_cache(r[1], r[2], ttl) =>
          LET c == assignment_stats_cache
              k == generate_cache_key(r[1], r[2])
              is_fresh == TTLCache_is_fresh(c, k, ttl, now)
          IN /\ is_fresh = None <=> ~Has(c, k)
             /\ is_fresh = "True" <=> (Has(c, k) /\ 5 * Age(c, k) < 4 * ttl)
             /\ is_fresh = "False" <=> (Has(c, k) /\ 5 * Age(c, k) >= 4 * ttl)
             /\ last'.ret.value = "True" <=> is_fresh \in {None, "False"}
             /\ last'.ret.value = "False" <=> is_fresh = "True"
             /\ assignment_stats_cache' = c
             /\ now' = now
    ]_vars

\* a freshness check has just answered that no refresh is needed, on a cache
\* that holds an entry of age 3 and an entry of age 4, with ttl 5
C21_Witness ==
  /\ last.op = "should_refresh"
  /\ last.ret.value = "False"
  /\ Len(assignment_stats_cache) = 2
  /\ \E i, j \in 1..2 :
       /\ now - assignment_stats_cache[i].ts = 3
       /\ now - assignment_stats_cache[j].ts = 4

\* the step is a read of the key of request r
ReadOf(r) ==
  \/ \E ttl \in TTLs : get_cached_assignment_stats(r[1], r[2], ttl)
  \/ \E ttl \in TTLs, s \in StaleTTLs :
       get_cached_assignment_stats_stale_ok(r[1], r[2], ttl, s)

\* C24: between two sets of a key, with ttl and stale_ttl fixed, the reads of
\* the key only move forward: after a read that reported the entry stale no
\* read reports it fresh; after a read that reported it absent, and whenever
\* the key has no entry (never set, expired, evicted for room, cleared), every
\* read reports absent; and an entry comes into being only by a set of its
\* key.
C24_LifecycleMovesForward ==
  [][ \A r \in Requests :
        LET k == generate_cache_key(r[1], r[2])
            c == assignment_stats_cache
        IN /\ ReadOf(r) =>
                /\ seen[r] = "stale" => Reported(last'.ret) # "fresh"
                /\ seen[r] = "absent" => Reported(last'.ret) = "absent"
                /\ ~Has(c, k) => Reported(last'.ret) = "absent"
                /\ Reported(last'.ret) = "absent" => ~Has(assignment_stats_cache', k)
           /\ (~Has(c, k) /\ Has(assignment_stats_cache', k)) =>
                \E v \in Values : set_cached_assignment_stats(r[1], r[2], v)
    ]_vars

\* a key whose entry was reported stale, then read again at an age beyond the
\* stale extension: the read removed the entry and reported it absent
C24_Witness ==
  /\ last.op = "get_stale_ok"
  /\ last.removed
  /\ last.ret.value = None
  /\ \E r \in Requests : seen[r] = "absent"
  /\ now = 3

C29_SizeBound ==
  [][ /\ Len(assignment_stats_cache) <= MaxSize
      /\ Len(assignment_stats_cache') <= MaxSize
      /\ \A r \in Requests, v \in Values :
           LET k == generate_cache_key(r[1], r[2])
               c == assignment_stats_cache
           IN (set_cached_assignment_stats(r[1], r[2], v) /\ Has(c, k)) =>
                /\ Len(assignment_stats_cache') = Len(c)
                /\ SameElsewhere(c, assignment_stats_cache', k)
                /\ SameElsewhere(assignment_stats_cache', c, k)
                /\ Lookup(assignment_stats_cache', k).value = v
                /\ Lookup(assignment_stats_cache', k).ts = now
    ]_vars

\* a full cache just after a set that evicted an entry to make room, and
\* holding an entry written earlier than another
C29_Witness ==
  /\ last.op = "set"
  /\ last.victim > 0
  /\ Len(assignment_stats_cache) = MaxSize
  /\ \E i, j \in 1..Len(assignment_stats_cache) :
       assignment_stats_cache[i].ts < assignment_stats_cache[j].ts

\* ------------------------------------------------------------------------
\* Threads on one TTLCache: every method body runs inside `with self._lock`
\* (services/cache.py).  The cache is ta_groups_cache, built here with
\* max_size 1 so that two keys overflow it.
\* ------------------------------------------------------------------------
Methods == {"get", "get_stale_ok", "set", "clear", "size", "stats"}

LockKeys == {<<"c1", 1>>, <<"c2", 1>>}

\* what size() and stats() return
Size(n) == [size |-> n]

\* everything but the cache, the threads and the lock
lockFrame ==
  <<hashSeed, now, last, rewritten, pipeVars, serverVars, member_map, seen,
    callers, assignment_thread_pool_executor, resolvers, executor>>

\* a thread calls a method and comes to its `with self._lock`
call_method(t, op, key, ttl, stale_ttl) ==
  /\ threads[t].pc = "outside"
  /\ threads' = [threads EXCEPT ![t] =
       [pc |-> "waiting", op |-> op, key |-> key, found |-> FALSE,
        value |-> None, timestamp |-> 0, current_time |-> 0, snap |-> <<>>,
        ret |-> Ret(None, FALSE), ttl |-> ttl, stale_ttl |-> stale_ttl]]
  /\ UNCHANGED <<ta_groups_cache, lock>>
  /\ UNCHANGED lockFrame

\* a lock that lets every thread in
can_acquire_Always(l, t) == TRUE

\* threading.RLock: free, or held by the thread itself
can_acquire(l, t) == l \in {None, t}

\* with self._lock: the thread enters; snap is a history field, the cache as
\* the thread finds it
acquire(t) ==
  /\ threads[t].pc = "waiting"
  /\ can_acquire(lock, t)
  /\ lock' = t
  /\ threads' = [threads EXCEPT ![t].pc = "locked",
                                ![t].snap = ta_groups_cache]
  /\ UNCHANGED ta_groups_cache
  /\ UNCHANGED lockFrame

\* the body up to its first write or return: get and get_stale_ok look the
\* key up and read the clock, set writes the entry, clear empties the dict,
\* size and stats read len(self._cache)
first_step(t) ==
  LET th == threads[t]
      c == ta_groups_cache
  IN /\ th.pc = "locked"
     /\ ta_groups_cache' =
          IF th.op = "set" THEN Assign(c, th.key, "v1", now, "tA")
          ELSE IF th.op = "clear" THEN <<>> ELSE c
     /\ threads' = [threads EXCEPT ![t] =
          IF th.op \in {"get", "get_stale_ok"}
          THEN IF Has(c, th.key)
               THEN [th EXCEPT !.pc = "checked", !.found = TRUE,
                               !.value = Lookup(c, th.key).value,
                               !.timestamp = Lookup(c, th.key).ts,
                               !.current_time = now]
               ELSE [th EXCEPT !.pc = "leaving"]
          ELSE IF th.op = "set"
               THEN [th EXCEPT !.pc = "written", !.current_time = now]
               ELSE IF th.op = "clear"
                    THEN [th EXCEPT !.pc = "leaving"]
                    ELSE [th EXCEPT !.pc = "leaving", !.ret = Size(Len(c))]]
     /\ UNCHANGED lock
     /\ UNCHANGED lockFrame

\* the rest of the body: get and get_stale_ok compare the age and delete the
\* key or return the value, set evicts the oldest entry when the dict has
\* grown beyond max_size
second_step(t) ==
  LET th == threads[t]
      c == ta_groups_cache
      age == th.current_time - th.timestamp
      expired == IF th.op = "get" THEN age > th.ttl
                 ELSE age > th.ttl + th.stale_ttl
  IN /\ th.pc \in {"checked", "written"}
     /\ ta_groups_cache' =
          IF th.pc = "written"
          THEN IF Len(c) > 1 THEN Del(c, c[OldestIndex(c)].key) ELSE c
          ELSE IF expired THEN Del(c, th.key) ELSE c
     /\ threads' = [threads EXCEPT ![t] =
          IF th.pc = "written" THEN [th EXCEPT !.pc = "leaving"]
          ELSE IF expired THEN [th EXCEPT !.pc = "leaving"]
               ELSE [th EXCEPT !.pc = "leaving",
                               !.ret = Ret(th.value,
                                           th.op = "get_stale_ok" /\ age > th.ttl)]]
     /\ UNCHANGED lock
     /\ UNCHANGED lockFrame

\* the thread leaves the with block and the method returns
release(t) ==
  /\ threads[t].pc = "leaving"
  /\ lock' = None
  /\ threads' = [threads EXCEPT ![t] = Outside]
  /\ UNCHANGED ta_groups_cache
  /\ UNCHANGED lockFrame

InitLock ==
  /\ NoMore
  /\ CacheIdle
  /\ NoRequest
  /\ NoServer

NextLock ==
  \/ \E t \in Threads, op \in Methods, key \in LockKeys,
        ttl \in TTLs, s \in StaleTTLs : call_method(t, op, key, ttl, s)
  \/ \E t \in Threads : acquire(t)
  \/ \E t \in Threads : first_step(t)
  \/ \E t \in Threads : second_step(t)
  \/ \E t \in Threads : release(t)
  \/ Tick

SpecLock == InitLock /\ [][NextLock]_vars

\* what the call of thread record th does when it runs alone on the cache
\* it found: the cache it leaves and what it returns
Alone(th) ==
  IF th.op = "get"
  THEN TTLCache_get(th.snap, th.key, th.ttl, th.current_time)
  ELSE IF th.op = "get_stale_ok"
  THEN TTLCache_get_stale_ok(th.snap, th.key, th.ttl, th.stale_ttl,
                             th.current_time)
  ELSE IF th.op = "set"
  THEN [cache |-> TTLCache_set(th.snap, th.key, "v1", th.current_time,
                               "tA", 1).cache,
        ret |-> Ret(None, FALSE)]
  ELSE IF th.op = "clear"
  THEN [cache |-> <<>>, ret |-> Ret(None, FALSE)]
  ELSE [cache |-> th.snap, ret |-> Size(Len(th.snap))]

\* C25: the calls take effect one after the other, in the order in which
\* they enter the lock: the cache changes only in a step of the thread that
\* holds the lock, and a call that returns leaves the cache, and returns the
\* result, that the same call gives when run alone on the cache it found; so
\* a get never deletes an entry written after it looked the key up, and
\* size and stats never see more than max_size entries.
C25_CallsAreAtomic ==
  [][ /\ ta_groups_cache' # ta_groups_cache =>
           /\ lock # None
           /\ lock' = lock
           /\ threads[lock].pc \in {"locked", "checked", "written"}
           /\ \A u \in Threads \ {lock} : threads'[u] = threads[u]
      /\ \A t \in Threads :
           release(t) =>
             /\ ta_groups_cache = Alone(threads[t]).cache
             /\ threads[t].ret = Alone(threads[t]).ret
             /\ threads[t].op \in {"size", "stats"} => threads[t].ret.size <= 1
    ]_vars

\* a get is between its expiry check and its deletion, on an entry that has
\* expired, while the other thread waits at the lock with a set of the key
C25_Witness ==
  \E t, u \in Threads :
    /\ lock = t
    /\ threads[t].pc = "checked"
    /\ threads[t].op = "get"
    /\ threads[t].current_time - threads[t].timestamp > threads[t].ttl
    /\ threads[u].pc = "waiting"
    /\ threads[u].op = "set"
    /\ threads[u].key = threads[t].key

\* ------------------------------------------------------------------------
\* Concurrent get_ta_groups requests for one (course, token)
\* (routers/ta_management.py).  The coroutines of the requests interleave at
\* their awaits: the cache check runs up to the first await, the fetch is
\* awaited, the cache write and the return follow the last await.
\* ------------------------------------------------------------------------
\* everything but the TA groups cache and the requests
callerFrame ==
  <<hashSeed, now, last, rewritten, pipeVars, serverVars, member_map, seen,
    threads, lock, assignment_thread_pool_executor, resolvers, executor>>

\* the request arrives and checks the cache: a hit is answered at once
get_ta_groups_check(r, ttl) ==
  LET got == TTLCache_get(ta_groups_cache, RequestKey, ttl, now)
      found == IF ~Has(ta_groups_cache, RequestKey) THEN "cold"
               ELSE IF got.ret.value = None THEN "expired" ELSE "hit"
  IN /\ callers[r].pc = "idle"
     /\ ta_groups_cache' = got.cache
     /\ callers' = [callers EXCEPT ![r] =
          IF found = "hit" THEN Caller("done", found, got.ret.value, "200", 0)
          ELSE Caller("fetching", found, None, None, 0)]
     /\ UNCHANGED callerFrame

\* the awaited Canvas calls of the request return the groups as they are
\* then, or one of them raises, which the request answers with 500
get_ta_groups_fetch(r, outcome) ==
  /\ callers[r].pc = "fetching"
  /\ callers' = [callers EXCEPT ![r] =
       IF outcome = "raise"
       THEN Caller("done", callers[r].check, None, "500", 0)
       ELSE Caller("fetched", callers[r].check, outcome, None, 0)]
  /\ UNCHANGED ta_groups_cache
  /\ UNCHANGED callerFrame

\* set_cached_ta_groups(course_id, api_token, ta_groups_data, course_info,
\* None) and the return of the response
get_ta_groups_store(r) ==
  LET rank == 1 + Cardinality({q \in Callers : callers[q].wrote > 0})
  IN /\ callers[r].pc = "fetched"
     /\ ta_groups_cache' =
          TTLCache_set(ta_groups_cache, RequestKey, callers[r].value, now,
                       "tA", MaxSize).cache
     /\ callers' = [callers EXCEPT ![r] =
          Caller("done", callers[r].check, callers[r].value, "200", rank)]
     /\ UNCHANGED callerFrame

InitCold ==
  /\ NoMore
  /\ CacheIdle
  /\ NoRequest
  /\ NoServer

NextCold ==
  \/ \E r \in Callers, ttl \in TTLs : get_ta_groups_check(r, ttl)
  \/ \E r \in Callers, o \in Values \cup {"raise"} : get_ta_groups_fetch(r, o)
  \/ \E r \in Callers : get_ta_groups_store(r)
  \/ Tick

SpecCold == InitCold /\ [][NextCold]_vars

\* both requests found the key without entry
BothCold == \A r \in Callers : callers[r].check = "cold"

\* C26: two requests that both find the key cold both go on to the upstream
\* fetch; a request is answered with an error only when its own fetch
\* raised; the cache never holds two entries of the key; and once both
\* requests are answered the key has an entry exactly when some run wrote
\* one, holding the value of the run that wrote last.
C26_ColdKeyTwoRuns ==
  /\ Cardinality({i \in 1..Len(ta_groups_cache) :
                    ta_groups_cache[i].key = RequestKey}) <= 1
  /\ \A r \in Callers :
       /\ callers[r].check \in {"cold", "expired"} => callers[r].pc # "idle"
       /\ callers[r].status = "500" =>
            (callers[r].value = None /\ callers[r].wrote = 0)
       /\ (callers[r].pc = "done" /\ callers[r].check # "hit") =>
            (callers[r].status = "200" <=> callers[r].wrote > 0)
  /\ BothCold =>
       /\ \A r \in Callers : callers[r].pc \in {"fetching", "fetched", "done"}
       /\ \A r \in Callers : callers[r].pc = "done" => callers[r].check = "cold"
       /\ (\A r \in Callers : callers[r].pc = "done") =>
            /\ Has(ta_groups_cache, RequestKey)
                 <=> \E r \in Callers : callers[r].wrote > 0
            /\ \A r \in Callers :
                 (/\ callers[r].wrote > 0
                  /\ \A q \in Callers : callers[q].wrote <= callers[r].wrote) =>
                   Lookup(ta_groups_cache, RequestKey).value = callers[r].value

\* both requests found the key cold, both fetched, with different results,
\* and both are answered: the entry holds the value written last
C26_Witness ==
  /\ BothCold
  /\ \A r \in Callers : callers[r].pc = "done" /\ callers[r].status = "200"
  /\ callers["r1"].value # callers["r2"].value
  /\ callers["r1"].wrote = 2

\* ------------------------------------------------------------------------
\* The assignment pool dependency (dependencies.py:
\* get_assignment_thread_pool).  It is a plain def, which FastAPI runs in a
\* worker thread for each request; the check of the global and the
\* assignment to it are separate steps of that thread, without a lock.
\* ------------------------------------------------------------------------
MaxWorkers == 1

\* everything but the global and the requests that resolve it
poolFrame ==
  <<cacheVars, pipeVars, serverVars, member_map, seen, threads, lock, callers,
    executor>>

\* if assignment_thread_pool_executor is None
pool_check(r) ==
  /\ resolvers[r].pc = "idle"
  /\ resolvers' = [resolvers EXCEPT ![r] =
       Resolver("checked", assignment_thread_pool_executor = 0, 0, 0, 0, 0)]
  /\ UNCHANGED assignment_thread_pool_executor
  /\ UNCHANGED poolFrame

\* assignment_thread_pool_executor = ThreadPoolExecutor(max_workers=...):
\* a new pool, named by the order of creation
pool_create(r) ==
  LET id == 1 + Cardinality({q \in Callers : resolvers[q].made > 0})
  IN /\ resolvers[r].pc = "checked"
     /\ resolvers[r].saw_none
     /\ assignment_thread_pool_executor' = id
     /\ resolvers' = [resolvers EXCEPT ![r] =
          Resolver("created", TRUE, id, 0, 0, 0)]
     /\ UNCHANGED poolFrame

\* return assignment_thread_pool_executor: the request gets the pool the
\* global names now, and has its per-assignment jobs to submit
pool_return(r) ==
  /\ \/ resolvers[r].pc = "created"
     \/ resolvers[r].pc = "checked" /\ ~resolvers[r].saw_none
  /\ resolvers' = [resolvers EXCEPT ![r] =
       Resolver("resolved", resolvers[r].saw_none, resolvers[r].made,
                assignment_thread_pool_executor, 0, NumAssignments)]
  /\ UNCHANGED assignment_thread_pool_executor
  /\ UNCHANGED poolFrame

\* the jobs executing in pool p
Executing(p) ==
  Cardinality({<<q, n>> \in Callers \X (1..NumAssignments) :
                 resolvers[q].pool = p /\ n <= resolvers[q].running})

\* assignment_pool.submit(...): a worker of the request's pool takes the
\* job when the pool has fewer than max_workers jobs executing
job_start(r) ==
  /\ resolvers[r].pc = "resolved"
  /\ resolvers[r].todo > 0
  /\ Executing(resolvers[r].pool) < MaxWorkers
  /\ resolvers' = [resolvers EXCEPT ![r].running = @ + 1, ![r].todo = @ - 1]
  /\ UNCHANGED assignment_thread_pool_executor
  /\ UNCHANGED poolFrame

\* a job returns
job_end(r) ==
  /\ resolvers[r].running > 0
  /\ resolvers' = [resolvers EXCEPT ![r].running = @ - 1]
  /\ UNCHANGED assignment_thread_pool_executor
  /\ UNCHANGED poolFrame

InitPool ==
  /\ NoMore
  /\ CacheIdle
  /\ NoRequest
  /\ NoServer

NextPool ==
  \/ \E r \in Callers : pool_check(r)
  \/ \E r \in Callers : pool_create(r)
  \/ \E r \in Callers : pool_return(r)
  \/ \E r \in Callers : job_start(r)
  \/ \E r \in Callers : job_end(r)

SpecPool == InitPool /\ [][NextPool]_vars

\* C30 (as claimed): at most one assignment pool is ever created, every
\* request that has resolved the dependency uses the same pool, and the
\* per-assignment jobs executing at once number at most
\* assignment_thread_pool_max_workers.
C30_SingleBoundedPool ==
  /\ Cardinality({r \in Callers : resolvers[r].made > 0}) <= 1
  /\ \A r, q \in Callers :
       (resolvers[r].pc = "resolved" /\ resolvers[q].pc = "resolved") =>
         resolvers[r].pool = resolvers[q].pool
  /\ Executing(1) + Executing(2) <= MaxWorkers

\* ------------------------------------------------------------------------
\* _to_thread, attempt by attempt: the call handed to thread_pool and the
\* wait_for around it (routers/ta_management.py).  executor[j] is the call
\* of attempt j: executing, returned, raised, abandoned (timed out while
\* executing) or late (abandoned, and finished afterwards).
\* ------------------------------------------------------------------------
\* everything but the wrapper call and the executor
timeoutFrame ==
  <<cacheVars, pipeVars, upstream, arrived, enable_caching, tasks, ack,
    assignment_stats_cache, member_map, seen, threads, lock, callers,
    assignment_thread_pool_executor, resolvers>>

\* loop.run_in_executor(thread_pool, lambda: func(*args)) under wait_for
submit_attempt ==
  /\ call.state = "running"
  /\ call' = [call EXCEPT !.state = "awaiting"]
  /\ executor' = Append(executor, "executing")
  /\ UNCHANGED timeoutFrame

\* func returns within the timeout
executor_returns ==
  /\ call.state = "awaiting"
  /\ call' = attempt(call, "ok")
  /\ executor' = [executor EXCEPT ![Len(executor)] = "returned"]
  /\ UNCHANGED timeoutFrame

\* func raises within the timeout
executor_raises(e) ==
  /\ call.state = "awaiting"
  /\ call' = attempt(call, e)
  /\ executor' = [executor EXCEPT ![Len(executor)] = "raised"]
  /\ UNCHANGED timeoutFrame

\* the timeout passes first: wait_for cancels the awaited future and raises
\* TimeoutError; the thread goes on executing func
wait_for_expires ==
  /\ call.state = "awaiting"
  /\ call' = attempt(call, "TimeoutError")
  /\ executor' = [executor EXCEPT ![Len(executor)] = "abandoned"]
  /\ UNCHANGED timeoutFrame

\* a slip: the result of an abandoned call handed to the caller
cancelled_result_Delivered(c, j) ==
  IF c.state \in {"returned", "raised"} THEN c
  ELSE [c EXCEPT !.state = "returned", !.ret = j]

\* what the wrapper call becomes when the abandoned call of attempt j ends:
\* the future that was awaited is cancelled, its result goes nowhere
cancelled_result(c, j) == c

\* func of an abandoned attempt returns or raises in its thread
abandoned_call_ends(j) ==
  /\ j \in 1..Len(executor)
  /\ executor[j] = "abandoned"
  /\ executor' = [executor EXCEPT ![j] = "late"]
  /\ call' = cancelled_result(call, j)
  /\ UNCHANGED timeoutFrame

InitTimeout ==
  /\ NoMore
  /\ CacheIdle
  /\ NoRequest
  /\ NoRefresh
  /\ upstream = UpstreamOk
  /\ call = StartCall("func", <<>>)

NextTimeout ==
  \/ submit_attempt
  \/ executor_returns
  \/ \E e \in Exceptions \ {"TimeoutError"} : executor_raises(e)
  \/ wait_for_expires
  \/ \E j \in 1..attempts : abandoned_call_ends(j)
  \/ to_thread_sleep
  \/ to_thread_raise

SpecTimeout == InitTimeout /\ [][NextTimeout]_vars

\* C27: an attempt that times out leaves the wrapper as an attempt that
\* raised does, with TimeoutError as the exception: one attempt used, the
\* backoff wait next and then the next attempt, both without regard to the
\* abandoned call; the end of an abandoned call changes nothing in the
\* wrapper, and a result the wrapper returns is that of an attempt that
\* returned within its timeout.
C27_TimeoutIsFailedAttempt ==
  [][ /\ wait_for_expires =>
           /\ call' = [attempt(call, "ConnectionError")
                         EXCEPT !.last_exc = "TimeoutError"]
           /\ call'.tries = call.tries + 1
           /\ call'.state = "except"
      /\ call.state = "except" => ENABLED to_thread_sleep
      /\ call.state = "running" => ENABLED submit_attempt
      /\ \A j \in 1..attempts : abandoned_call_ends(j) => call' = call
      /\ call'.state = "returned" => executor'[call'.ret] = "returned"
      /\ call'.tries <= attempts
    ]_vars

\* the wrapper has returned the result of its third attempt while the call of
\* the first attempt, abandoned at its timeout, has finished since and the
\* call of the second is still executing
C27_Witness ==
  /\ call.state = "returned"
  /\ call.ret = 3
  /\ executor = <<"late", "abandoned", "returned">>

====
